---- MODULE Spec2Model ----
(***************************************************************************)
(* CareQueue (mimic-iv-3.1): the batch scripts that turn ICU stays, chart  *)
(* events and procedure events into 4-hour bins and (s, a, r, s', done)    *)
(* transition tables.                                                      *)
(*                                                                         *)
(*   ddqn_processing.py             naive in-memory pandas builder         *)
(*   ddqn_processing_2.py           chunked pandas builder                 *)
(*   ddqn/build_states_duckdb.py    DuckDB state table (state_4h.parquet)  *)
(*   ddqn/build_transitions_table.py  DuckDB transitions table             *)
(*   time_bins_for_bcq.py           DuckDB bins and binned events tables   *)
(*   full_aggregate_outliers.py     percentile outlier capping             *)
(*   merging_files.py               chunked per-patient feature aggregate  *)
(*   sepsis_further_selection.py    top-5 and best itemid per feature      *)
(*                                                                         *)
(* Every script is a process of its own, run once on the input files: a    *)
(* behaviour picks the input files and the script in Init and then runs    *)
(* that script statement by statement.                                     *)
(*                                                                         *)
(* Time is counted in hours.  A state slot is a rational [num, den] in     *)
(* lowest terms; den = 0 is the missing value (NaN in pandas, NULL in      *)
(* DuckDB).  The mean is kept exact: np.float32 (pandas) and DOUBLE        *)
(* (DuckDB) round it, and the values used here (70, 80, 75, 37) are exact  *)
(* in both.                                                                *)
(*                                                                         *)
(* icustays holds the rows of icustays.csv.gz and diagnoses the rows of     *)
(* diagnoses_icd.csv.gz; an icd_code is a sequence of characters.          *)
(*                                                                         *)
(* full_aggregate_outliers.py treats the columns one by one and alike; the *)
(* model follows one column of the feature matrix through the script.      *)
(***************************************************************************)
EXTENDS Integers, Sequences, FiniteSets, TLC

VARIABLES
    script,           \* the script this process runs
    pc,               \* the statement the script is at
    icustays,         \* icustays.csv.gz: the cohort's stays (a sequence of rows)
    admissions,       \* admissions.csv.gz: rows hadm_id, hospital_expire_flag
    chartevents,      \* chartevents.csv.gz: rows in file order
    procedureevents,  \* procedureevents.csv.gz: rows in file order
    chunksize,        \* rows per chunk of pd.read_csv(CHARTEVENTS_FILE, chunksize=...)
    chunk_no,         \* chunks of chartevents consumed so far (ddqn_processing_2)
    parquet_rows,     \* ddqn_processing_2: rows gathered so far
    bin_hours,        \* time_bins_for_bcq: --bin-hours
    transitions_df,   \* pandas: the rows of the transition table, in order
    states,           \* DuckDB: state_4h.parquet
    next_states,      \* DuckDB: table next_states
    transitions,      \* DuckDB: table transitions
    bins_out,         \* time_bins_for_bcq: bins_{h}h.parquet
    diagnoses,        \* diagnoses_icd.csv.gz: rows hadm_id, icd_version, icd_code
    csv_col,          \* full_aggregate_outliers: the cells of the column in INPUT_CSV
    df_col,           \* full_aggregate_outliers: df[col]
    numeric_cols,     \* full_aggregate_outliers: numeric_cols
    q_low,            \* full_aggregate_outliers: q_low[col]
    q_high,           \* full_aggregate_outliers: q_high[col]
    events,           \* merging_files: the rows of the events file, in file order
    agg,              \* merging_files: the aggregation function chosen
    agg_chunksize,    \* merging_files: rows per chunk of pd.read_csv(events_path, ...)
    agg_i,            \* merging_files: chunks of the events file consumed so far
    partial,          \* merging_files: the per-chunk aggregates gathered so far
    out,              \* merging_files: the rows subject_id, feature, value returned
    input_files,      \* time_bins_for_bcq: the input paths that exist under --root
    itemids_file,     \* time_bins_for_bcq: --itemids-file and the file it names
    itemids,          \* time_bins_for_bcq: itemids (empty for None)
    out_files,        \* time_bins_for_bcq: the output parquet files that exist
    events_out,       \* time_bins_for_bcq: events_{h}h_long.parquet
    candidates,       \* sepsis_further_selection: feature_itemid_candidates.csv, scored
    df_rank,          \* sepsis_further_selection: df, sorted and ranked
    top5,             \* sepsis_further_selection: feature_itemid_top5.csv
    best              \* sepsis_further_selection: feature_itemid_best.csv

\* the variables of full_aggregate_outliers.py
cap_vars == <<csv_col, df_col, numeric_cols, q_low, q_high>>

\* the variables of the binning and transition scripts
bin_vars == <<icustays, admissions, chartevents, procedureevents, chunksize,
              chunk_no, parquet_rows, bin_hours, transitions_df, states,
              next_states, transitions, bins_out, diagnoses>>

\* the variables of aggregate_events_to_patient_features in merging_files.py
agg_vars == <<events, agg, agg_chunksize, agg_i, partial, out>>

\* the variables of main in time_bins_for_bcq.py besides the tables
bcq_vars == <<input_files, itemids_file, itemids, out_files, events_out>>

\* the variables of main in sepsis_further_selection.py
sel_vars == <<candidates, df_rank, top5, best>>

\* the variables of the scripts that build no bins and cap no column
ext_vars == <<agg_vars, bcq_vars, sel_vars>>

vars == <<script, pc, bin_vars, cap_vars, ext_vars>>

----------------------------------------------------------------------------
(* Bounds of the model *)

\* rows of diagnoses_icd in the cohort runs
MaxDiag == 2
\* rows of the feature matrix
MaxRows == 3
\* outtime runs over 0, 2, ..., 2 * MaxTick hours
MaxTick == 6
\* the hour the stay begins at
InTime == 2
\* rows of an event file
MaxEvents == 2
\* largest chunksize tried
MaxChunkSize == 2

----------------------------------------------------------------------------
(* Program constants *)

BIN_SIZE == 4

\* the percentiles of the outlier thresholds, in hundredths
LOW_Q == 1
HIGH_Q == 99

STATE_V_ITEMIDS == <<220045, 223762, 220277, 220050, 220051, 220052>>

VENTILATION_IDS == {225794}
INVASIVE_LINES_IDS == {224263, 224268, 225752}
U_CATHETER_IDS == {229351}
IN_EX_TUBATION_IDS == {227194}
DIALYSIS_IDS == {225802}

----------------------------------------------------------------------------
(* Arithmetic helpers *)

Max(a, b) == IF a >= b THEN a ELSE b

RECURSIVE GCD(_, _)
GCD(a, b) == IF b = 0 THEN a ELSE GCD(b, a % b)

\* the missing value of a slot
NaN == [num |-> 0, den |-> 0]

\* the number n as a slot value
Num(n) == [num |-> n, den |-> 1]

IsMissing(x) == x.den = 0

RECURSIVE SumSeq(_)
SumSeq(s) == IF s = <<>> THEN 0 ELSE Head(s) + SumSeq(Tail(s))

\* arithmetic mean of a non-empty sequence of non-negative integers
MeanOf(vals) ==
    LET n == Len(vals)
        t == SumSeq(vals)
        g == GCD(t, n)
    IN  [num |-> t \div g, den |-> n \div g]

\* the greatest and the least value of a non-empty sequence of integers
Greatest(q) == CHOOSE v \in {q[i] : i \in 1..Len(q)} : \A i \in 1..Len(q) : v >= q[i]
Least(q) == CHOOSE v \in {q[i] : i \in 1..Len(q)} : \A i \in 1..Len(q) : v <= q[i]

RECURSIVE Concat(_)
Concat(ss) == IF ss = <<>> THEN <<>> ELSE Head(ss) \o Concat(Tail(ss))

----------------------------------------------------------------------------
(* ddqn_processing.py *)

SEPSIS_PREFIXES == {<<"A", "4", "0">>, <<"A", "4", "1">>, <<"R", "6", "5">>}

\* str.startswith(prefixes): some prefix is an initial part of the code
startswith(code, prefixes) ==
    \E p \in prefixes : Len(code) >= Len(p) /\ SubSeq(code, 1, Len(p)) = p

\* sepsis_hadm_ids: the hadm_id of the ICD-10 diagnoses with a sepsis prefix
sepsis_hadm_ids(diag) ==
    {d.hadm_id : d \in {x \in diag : /\ x.icd_version = 10
                                     /\ startswith(x.icd_code, SEPSIS_PREFIXES)}}

\* icustays[icustays.hadm_id.isin(sepsis_hadm_ids)]
sepsis_cohort(stays, diag) ==
    SelectSeq(stays, LAMBDA s : s.hadm_id \in sepsis_hadm_ids(diag))

\* mutant of make_bins: one more edge, the first one past end
make_bins_past_end(intime, outtime) ==
    IF outtime < intime THEN <<>>
    ELSE [i \in 1..((outtime - intime) \div BIN_SIZE + 2) |->
              intime + (i - 1) * BIN_SIZE]

\* pd.date_range(start, end, freq="4H"): start, start + 4h, ... while <= end
make_bins(intime, outtime) ==
    IF outtime < intime THEN <<>>
    ELSE [i \in 1..((outtime - intime) \div BIN_SIZE + 1) |->
              intime + (i - 1) * BIN_SIZE]

get_state_vector(ce, start, end) ==
    LET window == SelectSeq(ce, LAMBDA r : r.charttime >= start /\ r.charttime < end)
    IN  [k \in 1..Len(STATE_V_ITEMIDS) |->
            LET rows == SelectSeq(window, LAMBDA r : r.itemid = STATE_V_ITEMIDS[k])
                vals == [j \in 1..Len(rows) |-> rows[j].valuenum]
            IN  IF vals # <<>> THEN MeanOf(vals) ELSE NaN]

\* mutant of get_action: the window is open at its start
get_action_open_start(pe, start, end) ==
    LET window == SelectSeq(pe, LAMBDA r : r.starttime > start /\ r.starttime < end)
        ids == {window[j].itemid : j \in 1..Len(window)}
    IN  IF window = <<>> THEN 0
        ELSE IF ids \cap VENTILATION_IDS # {} THEN 1
        ELSE IF ids \cap INVASIVE_LINES_IDS # {} THEN 2
        ELSE IF ids \cap U_CATHETER_IDS # {} THEN 3
        ELSE IF ids \cap IN_EX_TUBATION_IDS # {} THEN 4
        ELSE IF ids \cap DIALYSIS_IDS # {} THEN 5
        ELSE 0

get_action(pe, start, end) ==
    LET window == SelectSeq(pe, LAMBDA r : r.starttime >= start /\ r.starttime < end)
        ids == {window[j].itemid : j \in 1..Len(window)}
    IN  IF window = <<>> THEN 0
        ELSE IF ids \cap VENTILATION_IDS # {} THEN 1
        ELSE IF ids \cap INVASIVE_LINES_IDS # {} THEN 2
        ELSE IF ids \cap U_CATHETER_IDS # {} THEN 3
        ELSE IF ids \cap IN_EX_TUBATION_IDS # {} THEN 4
        ELSE IF ids \cap DIALYSIS_IDS # {} THEN 5
        ELSE 0

\* mutant of died: the flag is compared with 0
died_flag_zero(adm, hadm_id) ==
    IF \E a \in adm : a.hadm_id = hadm_id
    THEN \E a \in adm : a.hadm_id = hadm_id /\ a.hospital_expire_flag = 0
    ELSE FALSE

\* admissions_idx.loc[hadm_id] == 1, KeyError -> False
died(adm, hadm_id) ==
    IF \E a \in adm : a.hadm_id = hadm_id
    THEN \E a \in adm : a.hadm_id = hadm_id /\ a.hospital_expire_flag = 1
    ELSE FALSE

\* mutant of zeros_like: the array is copied
zeros_like_copy(s) == [k \in DOMAIN s |-> s[k]]

zeros_like(s) == [k \in DOMAIN s |-> Num(0)]

\* mutant of build_transitions_for_stay: the terminal transition is not appended
build_transitions_no_terminal(stay, ces, pes, adm) ==
    LET ce == SelectSeq(ces, LAMBDA r : r.stay_id = stay.stay_id)
        bins == make_bins(stay.intime, stay.outtime)
    IN  IF Len(bins) < 2 THEN <<>>
        ELSE
          LET sts == [i \in 1..(Len(bins) - 1) |->
                          get_state_vector(ce, bins[i], bins[i + 1])]
          IN  [t \in 1..(Len(sts) - 1) |->
                  [state |-> sts[t], action |-> 0, reward |-> 0,
                   next_state |-> sts[t + 1], done |-> 0]]

build_transitions_for_stay(stay, ces, pes, adm) ==
    LET ce == SelectSeq(ces, LAMBDA r : r.stay_id = stay.stay_id)
        pe == SelectSeq(pes, LAMBDA r : r.stay_id = stay.stay_id)
        bins == make_bins(stay.intime, stay.outtime)
    IN  IF Len(bins) < 2 THEN <<>>
        ELSE
          LET sts == [i \in 1..(Len(bins) - 1) |->
                          get_state_vector(ce, bins[i], bins[i + 1])]
              acts == [i \in 1..(Len(bins) - 1) |->
                          get_action(pe, bins[i], bins[i + 1])]
              body == [t \in 1..(Len(sts) - 1) |->
                          [state |-> sts[t], action |-> acts[t], reward |-> 0,
                           next_state |-> sts[t + 1], done |-> 0]]
              last == [state |-> sts[Len(sts)], action |-> acts[Len(sts)],
                       reward |-> IF died(adm, stay.hadm_id) THEN -1 ELSE 1,
                       next_state |-> zeros_like(sts[Len(sts)]), done |-> 1]
          IN  Append(body, last)

\* one row of transitions_df from one transition
ToRow(tr) ==
    [action |-> tr.action, reward |-> tr.reward, done |-> tr.done,
     s |-> tr.state, s_next |-> tr.next_state]

\* the script from the loop over icustays to transitions_df
RunNaive ==
    /\ script = "ddqn_processing"
    /\ pc = "start"
    /\ LET cohort == sepsis_cohort(icustays, diagnoses)
           all_transitions ==
               Concat([i \in 1..Len(cohort) |->
                          build_transitions_for_stay(cohort[i], chartevents,
                                                     procedureevents, admissions)])
       IN  transitions_df' = [j \in 1..Len(all_transitions) |-> ToRow(all_transitions[j])]
    /\ pc' = "done"
    /\ UNCHANGED <<script, icustays, admissions, chartevents, procedureevents,
                   chunksize, chunk_no, parquet_rows, bin_hours, states, next_states,
                   transitions, bins_out>>
    /\ UNCHANGED <<diagnoses, cap_vars, ext_vars>>

----------------------------------------------------------------------------
(* ddqn_processing_2.py *)

\* a NULL timestamp of icustays (NaT in pandas)
NaT == 0 - 1

\* icustays.dropna(subset=["intime", "outtime"]), then the sepsis cohort
sepsis_cohort_2(stays, diag) ==
    LET kept == SelectSeq(stays, LAMBDA s : s.intime # NaT /\ s.outtime # NaT)
        ids == {d.hadm_id : d \in {x \in diag : /\ x.icd_version = 10
                                                /\ startswith(x.icd_code, SEPSIS_PREFIXES)}}
    IN  SelectSeq(kept, LAMBDA s : s.hadm_id \in ids)

make_bins_2(intime, outtime) ==
    IF outtime < intime THEN <<>>
    ELSE [i \in 1..((outtime - intime) \div BIN_SIZE + 1) |->
              intime + (i - 1) * BIN_SIZE]

get_state_vector_2(ce, start, end) ==
    LET window == SelectSeq(ce, LAMBDA r : r.charttime >= start /\ r.charttime < end)
    IN  [k \in 1..Len(STATE_V_ITEMIDS) |->
            LET rows == SelectSeq(window, LAMBDA r : r.itemid = STATE_V_ITEMIDS[k])
                vals == [j \in 1..Len(rows) |-> rows[j].valuenum]
            IN  IF vals # <<>> THEN MeanOf(vals) ELSE NaN]

get_action_2(pe, start, end) ==
    LET window == SelectSeq(pe, LAMBDA r : r.starttime >= start /\ r.starttime < end)
        ids == {window[j].itemid : j \in 1..Len(window)}
    IN  IF window = <<>> THEN 0
        ELSE IF ids \cap VENTILATION_IDS # {} THEN 1
        ELSE IF ids \cap INVASIVE_LINES_IDS # {} THEN 2
        ELSE IF ids \cap U_CATHETER_IDS # {} THEN 3
        ELSE IF ids \cap IN_EX_TUBATION_IDS # {} THEN 4
        ELSE IF ids \cap DIALYSIS_IDS # {} THEN 5
        ELSE 0

\* mutant of died_2: the default of get is 1
died_2_default_one(adm, hadm_id) ==
    LET flag == IF \E a \in adm : a.hadm_id = hadm_id
                THEN (CHOOSE a \in adm : a.hadm_id = hadm_id).hospital_expire_flag
                ELSE 1
    IN  flag = 1

\* admissions_idx.get(hadm_id, 0) == 1
died_2(adm, hadm_id) ==
    LET flag == IF \E a \in adm : a.hadm_id = hadm_id
                THEN (CHOOSE a \in adm : a.hadm_id = hadm_id).hospital_expire_flag
                ELSE 0
    IN  flag = 1

build_transitions_for_stay_2(stay, ce_chunk, pes, adm) ==
    LET ce == SelectSeq(ce_chunk, LAMBDA r : r.stay_id = stay.stay_id)
        pe == SelectSeq(pes, LAMBDA r : r.stay_id = stay.stay_id)
        bins == make_bins_2(stay.intime, stay.outtime)
    IN  IF Len(bins) < 2 THEN <<>>
        ELSE
          LET sts == [i \in 1..(Len(bins) - 1) |->
                          get_state_vector_2(ce, bins[i], bins[i + 1])]
              acts == [i \in 1..(Len(bins) - 1) |->
                          get_action_2(pe, bins[i], bins[i + 1])]
              body == [t \in 1..(Len(sts) - 1) |->
                          [state |-> sts[t], action |-> acts[t], reward |-> 0,
                           next_state |-> sts[t + 1], done |-> 0]]
              last == [state |-> sts[Len(sts)], action |-> acts[Len(sts)],
                       reward |-> IF died_2(adm, stay.hadm_id) THEN -1 ELSE 1,
                       next_state |-> zeros_like(sts[Len(sts)]), done |-> 1]
          IN  Append(body, last)

\* chunks that pd.read_csv(..., chunksize=c) yields for a file of n rows: a
\* file without rows still yields one (empty) chunk
NumChunks(n, c) == Max(1, (n + c - 1) \div c)

\* rows of the k-th chunk (k = 1, 2, ...) of file f read c rows at a time
ChunkOf(f, c, k) ==
    SubSeq(f, (k - 1) * c + 1, IF k * c <= Len(f) THEN k * c ELSE Len(f))

\* one iteration of "for chunk in pd.read_csv(CHARTEVENTS_FILE, chunksize=...)"
ProcessChunk ==
    /\ script = "ddqn_processing_2"
    /\ pc = "start"
    /\ chunk_no < NumChunks(Len(chartevents), chunksize)
    /\ LET raw == ChunkOf(chartevents, chunksize, chunk_no + 1)
           chunk == SelectSeq(raw, LAMBDA r :
                        \E k \in 1..Len(STATE_V_ITEMIDS) : r.itemid = STATE_V_ITEMIDS[k])
           cohort == sepsis_cohort_2(icustays, diagnoses)
           trs == Concat([i \in 1..Len(cohort) |->
                             build_transitions_for_stay_2(cohort[i], chunk,
                                                          procedureevents, admissions)])
       IN  parquet_rows' = parquet_rows \o [j \in 1..Len(trs) |-> ToRow(trs[j])]
    /\ chunk_no' = chunk_no + 1
    /\ UNCHANGED <<script, pc, icustays, admissions, chartevents, procedureevents,
                   chunksize, bin_hours, transitions_df, states, next_states,
                   transitions, bins_out>>
    /\ UNCHANGED <<diagnoses, cap_vars, ext_vars>>

\* after the last chunk: transitions_df = pd.DataFrame(parquet_rows), to_parquet
SaveDataset ==
    /\ script = "ddqn_processing_2"
    /\ pc = "start"
    /\ chunk_no = NumChunks(Len(chartevents), chunksize)
    /\ transitions_df' = parquet_rows
    /\ pc' = "done"
    /\ UNCHANGED <<script, icustays, admissions, chartevents, procedureevents,
                   chunksize, chunk_no, parquet_rows, bin_hours, states, next_states,
                   transitions, bins_out>>
    /\ UNCHANGED <<diagnoses, cap_vars, ext_vars>>

----------------------------------------------------------------------------
(* SQL values: a nullable integer is [null, val] *)

SqlNull == [null |-> TRUE, val |-> 0]
Sql(v) == [null |-> FALSE, val |-> v]

\* COALESCE(x, d) of a nullable integer
CoalesceInt(x, d) == IF x.null THEN d ELSE x.val

\* COALESCE(x, d) of a state slot
CoalesceSlot(x, d) == IF IsMissing(x) THEN Num(d) ELSE x

----------------------------------------------------------------------------
(* ddqn/build_states_duckdb.py *)

TrackedItem(id) == \E k \in 1..Len(STATE_V_ITEMIDS) : id = STATE_V_ITEMIDS[k]

\* chartevents ce JOIN icustays icu ON ce.stay_id = icu.stay_id
\* WHERE ce.itemid IN (...), with the bin of each joined row:
\* FLOOR(EXTRACT(EPOCH FROM (ce.charttime - icu.intime)) / (4*3600))
StatesJoin(ces, stays) ==
    Concat([i \in 1..Len(stays) |->
        LET m == SelectSeq(ces, LAMBDA r : r.stay_id = stays[i].stay_id
                                           /\ TrackedItem(r.itemid))
        IN  [j \in 1..Len(m) |->
                [stay_id |-> m[j].stay_id,
                 bin |-> ((m[j].charttime - stays[i].intime) * 3600) \div (4 * 3600),
                 itemid |-> m[j].itemid,
                 valuenum |-> m[j].valuenum]]])

\* mutant of AvgItem: AVG over no value is 0
AvgItem_zero_when_empty(group, id) ==
    LET rows == SelectSeq(group, LAMBDA r : r.itemid = id)
        vals == [j \in 1..Len(rows) |-> rows[j].valuenum]
    IN  IF vals = <<>> THEN Num(0) ELSE MeanOf(vals)

\* AVG(CASE WHEN ce.itemid = id THEN ce.valuenum END) over the rows of a group
AvgItem(group, id) ==
    LET rows == SelectSeq(group, LAMBDA r : r.itemid = id)
        vals == [j \in 1..Len(rows) |-> rows[j].valuenum]
    IN  IF vals = <<>> THEN NaN ELSE MeanOf(vals)

\* SELECT ... GROUP BY ce.stay_id, bin
StatesQuery(ces, stays) ==
    LET joined == StatesJoin(ces, stays)
        keys == {<<joined[j].stay_id, joined[j].bin>> : j \in 1..Len(joined)}
    IN  {[stay_id |-> key[1], bin |-> key[2],
          v |-> [k \in 1..Len(STATE_V_ITEMIDS) |->
                    AvgItem(SelectSeq(joined, LAMBDA r : r.stay_id = key[1]
                                                      /\ r.bin = key[2]),
                            STATE_V_ITEMIDS[k])]] : key \in keys}

BuildStates ==
    /\ script = "ddqn_duckdb"
    /\ pc = "start"
    /\ states' = StatesQuery(chartevents, icustays)
    /\ pc' = "states"
    /\ UNCHANGED <<script, icustays, admissions, chartevents, procedureevents,
                   chunksize, chunk_no, parquet_rows, bin_hours, transitions_df,
                   next_states, transitions, bins_out>>
    /\ UNCHANGED <<diagnoses, cap_vars, ext_vars>>

----------------------------------------------------------------------------
(* ddqn/build_transitions_table.py *)

\* mutant of LeadRows: LEAD without PARTITION BY stay_id
LeadRows_unpartitioned(tbl, r) ==
    {x \in tbl : /\ x.bin > r.bin
                 /\ \A y \in tbl : y.bin > r.bin => x.bin <= y.bin}

\* the row LEAD(...) OVER (PARTITION BY stay_id ORDER BY bin) reads for row r
LeadRows(tbl, r) ==
    {x \in tbl : /\ x.stay_id = r.stay_id
                 /\ x.bin > r.bin
                 /\ \A y \in tbl : (y.stay_id = r.stay_id /\ y.bin > r.bin)
                                      => x.bin <= y.bin}

\* CREATE TABLE next_states AS SELECT ..., LEAD(...) ... FROM states
NextStatesQuery(tbl) ==
    {[stay_id |-> r.stay_id, bin |-> r.bin, v |-> r.v,
      next_v |-> IF LeadRows(tbl, r) = {}
                 THEN [k \in 1..Len(STATE_V_ITEMIDS) |-> NaN]
                 ELSE (CHOOSE x \in LeadRows(tbl, r) : TRUE).v,
      next_bin |-> IF LeadRows(tbl, r) = {}
                   THEN SqlNull
                   ELSE Sql((CHOOSE x \in LeadRows(tbl, r) : TRUE).bin)] : r \in tbl}

BuildNextStates ==
    /\ script = "ddqn_duckdb"
    /\ pc = "states"
    /\ next_states' = NextStatesQuery(states)
    /\ pc' = "next_states"
    /\ UNCHANGED <<script, icustays, admissions, chartevents, procedureevents,
                   chunksize, chunk_no, parquet_rows, bin_hours, transitions_df,
                   states, transitions, bins_out>>
    /\ UNCHANGED <<diagnoses, cap_vars, ext_vars>>

\* the hospital_expire_flag values that the LEFT JOINs icustays, admissions
\* attach to row s (NULL when a join finds no row)
JoinedFlags(s, stays, adm) ==
    LET icus == {i \in 1..Len(stays) : stays[i].stay_id = s.stay_id}
        flagsOf(h) == IF \E a \in adm : a.hadm_id = h
                      THEN {Sql(a.hospital_expire_flag) : a \in {b \in adm : b.hadm_id = h}}
                      ELSE {SqlNull}
    IN  IF icus = {} THEN {SqlNull}
        ELSE UNION {flagsOf(stays[i].hadm_id) : i \in icus}

\* the itemids that LEFT JOIN procedureevents attaches to row s:
\* p.starttime >= icu.intime + bin * 4h AND p.starttime < icu.intime + (bin + 1) * 4h
JoinedItemids(s, stays, pes) ==
    {pes[j].itemid : j \in {n \in 1..Len(pes) :
        /\ pes[n].stay_id = s.stay_id
        /\ \E i \in 1..Len(stays) :
              /\ stays[i].stay_id = s.stay_id
              /\ pes[n].starttime >= stays[i].intime + s.bin * 4
              /\ pes[n].starttime < stays[i].intime + (s.bin + 1) * 4}}

\* mutant of ActionCase: the urinary catheter is tested before the ventilation
ActionCase_catheter_first(ids) ==
    IF ids \cap {229351} # {} THEN 3
    ELSE IF ids \cap {225794} # {} THEN 1
    ELSE IF ids \cap {224263, 224268, 225752} # {} THEN 2
    ELSE IF ids \cap {227194} # {} THEN 4
    ELSE IF ids \cap {225802} # {} THEN 5
    ELSE 0

\* COALESCE(CASE WHEN MAX(CASE WHEN p.itemid IN (...) THEN 1 ELSE 0 END) = 1 ... END, 0)
ActionCase(ids) ==
    IF ids \cap {225794} # {} THEN 1
    ELSE IF ids \cap {224263, 224268, 225752} # {} THEN 2
    ELSE IF ids \cap {229351} # {} THEN 3
    ELSE IF ids \cap {227194} # {} THEN 4
    ELSE IF ids \cap {225802} # {} THEN 5
    ELSE 0

\* CASE WHEN s.next_bin IS NULL THEN 1 ELSE 0 END
DoneCase(s) == IF s.next_bin.null THEN 1 ELSE 0

\* mutant of RewardCase: the survival branch does not test s.next_bin IS NULL
RewardCase_every_row(s, flag) ==
    IF s.next_bin.null /\ CoalesceInt(flag, 0) = 1 THEN -1
    ELSE IF CoalesceInt(flag, 0) = 0 THEN 1
    ELSE 0

\* the reward CASE expression
RewardCase(s, flag) ==
    IF s.next_bin.null /\ CoalesceInt(flag, 0) = 1 THEN -1
    ELSE IF s.next_bin.null /\ CoalesceInt(flag, 0) = 0 THEN 1
    ELSE 0

\* CREATE TABLE transitions AS SELECT ... GROUP BY s.*, a.hospital_expire_flag
TransitionsQuery(tbl, stays, adm, pes) ==
    {[stay_id |-> g[1].stay_id,
      bin |-> g[1].bin,
      action |-> ActionCase(JoinedItemids(g[1], stays, pes)),
      s |-> g[1].v,
      s_next |-> [k \in 1..Len(STATE_V_ITEMIDS) |-> CoalesceSlot(g[1].next_v[k], 0)],
      done |-> DoneCase(g[1]),
      reward |-> RewardCase(g[1], g[2])] :
        g \in UNION {{<<s, f>> : f \in JoinedFlags(s, stays, adm)} : s \in tbl}}

BuildTransitions ==
    /\ script = "ddqn_duckdb"
    /\ pc = "next_states"
    /\ transitions' = TransitionsQuery(next_states, icustays, admissions, procedureevents)
    /\ pc' = "done"
    /\ UNCHANGED <<script, icustays, admissions, chartevents, procedureevents,
                   chunksize, chunk_no, parquet_rows, bin_hours, transitions_df,
                   states, next_states, bins_out>>
    /\ UNCHANGED <<diagnoses, cap_vars, ext_vars>>

----------------------------------------------------------------------------
(* time_bins_for_bcq.py *)

\* CEIL(a / b) for b > 0
CeilDiv(a, b) == 0 - ((0 - a) \div b)

\* mutant of n_bins: FLOOR in the place of CEIL
n_bins_floor(intime, outtime, bin_seconds) ==
    Max(0, ((outtime - intime) * 3600) \div bin_seconds)

\* GREATEST(0, CAST(CEIL(EXTRACT(EPOCH FROM (outtime - intime)) / bin_seconds) AS BIGINT))
n_bins(intime, outtime, bin_seconds) ==
    Max(0, CeilDiv((outtime - intime) * 3600, bin_seconds))

\* the COPY (...) TO bins_out query: one row per stay and bin index
BinsQuery(stays, hours) ==
    LET bin_seconds == hours * 3600
        s == {i \in 1..Len(stays) :
                 /\ stays[i].intime # NaT
                 /\ stays[i].outtime # NaT
                 /\ stays[i].outtime > stays[i].intime}
    IN  UNION {{[stay_id |-> stays[i].stay_id,
                 bin_idx |-> b,
                 bin_start |-> stays[i].intime + b * hours,
                 bin_end |-> stays[i].intime + (b + 1) * hours] :
                   b \in 0..(n_bins(stays[i].intime, stays[i].outtime, bin_seconds) - 1)} :
               i \in s}

WriteBins ==
    /\ script = "time_bins_for_bcq"
    /\ pc = "start"
    /\ bins_out' = BinsQuery(icustays, bin_hours)
    /\ out_files' = out_files \cup {"bins"}
    /\ pc' = "bins"
    /\ UNCHANGED <<script, icustays, admissions, chartevents, procedureevents,
                   chunksize, chunk_no, parquet_rows, bin_hours, transitions_df,
                   states, next_states, transitions>>
    /\ UNCHANGED <<diagnoses, cap_vars, agg_vars, sel_vars,
                   input_files, itemids_file, itemids, events_out>>

----------------------------------------------------------------------------
(* full_aggregate_outliers.py *)

\* A cell is [kind, val].  In INPUT_CSV: "num" a finite number val, "empty" an
\* empty field, "text" a field that is no number, "inf" and "-inf" the
\* infinities.  In df also: "NaN" the float NaN, and the strings "nan" and
\* "dropped".
Cell(k, v) == [kind |-> k, val |-> v]

\* pd.read_csv: an empty field is read as NaN
read_csv(col) ==
    [i \in 1..Len(col) |-> IF col[i].kind = "empty" THEN Cell("NaN", 0) ELSE col[i]]

\* pd.to_numeric(x, errors="coerce") of one cell: what is no number becomes NaN
to_numeric(c) ==
    IF c.kind \in {"num", "inf", "-inf", "NaN"} THEN c ELSE Cell("NaN", 0)

\* Series.notna() of one cell
notna(c) == c.kind # "NaN"

\* replace([np.inf, -np.inf], np.nan) of one cell
replace_inf(c) == IF c.kind \in {"inf", "-inf"} THEN Cell("NaN", 0) ELSE c

RECURSIVE Sorted(_)
\* the values of s in ascending order
Sorted(s) ==
    IF s = <<>> THEN <<>>
    ELSE LET m == CHOOSE i \in 1..Len(s) : \A j \in 1..Len(s) : s[i] <= s[j]
             rest == [k \in 1..(Len(s) - 1) |-> IF k < m THEN s[k] ELSE s[k + 1]]
         IN  <<s[m]>> \o Sorted(rest)

\* Series.quantile(q / 100), linear interpolation, NaN skipped: with x the
\* sorted values and p = q / 100 * (n - 1), x[floor p] + frac(p) * (x[floor p + 1]
\* - x[floor p]); the result is the fraction num / 100, NaN without a value
quantile(col, q) ==
    LET cells == SelectSeq(col, LAMBDA c : c.kind = "num")
        x == Sorted([i \in 1..Len(cells) |-> cells[i].val])
        n == Len(x)
        i == (q * (n - 1)) \div 100
        f == (q * (n - 1)) % 100
    IN  IF n = 0 THEN NaN
        ELSE [num |-> 100 * x[i + 1] + (IF f = 0 THEN 0 ELSE f * (x[i + 2] - x[i + 1])),
              den |-> 100]

\* mutant of fill_nan: the missing cells are left as they are
fill_nan_skipped(c) == c

\* df.loc[df[col].isna(), col] = "nan"
fill_nan(c) == IF c.kind = "NaN" THEN Cell("nan", 0) ELSE c

\* mutant of mask_outlier: the bounds lo and hi are outliers too
mask_outlier_closed(c, lo, hi) ==
    /\ c.kind # "nan"
    /\ to_numeric(c).kind = "num"
    /\ \/ to_numeric(c).val * lo.den <= lo.num
       \/ to_numeric(c).val * hi.den >= hi.num

\* (df[col] != "nan") & ((to_numeric(df[col]) < lo) | (to_numeric(df[col]) > hi))
mask_outlier(c, lo, hi) ==
    /\ c.kind # "nan"
    /\ to_numeric(c).kind = "num"
    /\ \/ to_numeric(c).val * lo.den < lo.num
       \/ to_numeric(c).val * hi.den > hi.num

\* df = pd.read_csv(INPUT_CSV)
ReadCsv ==
    /\ script = "full_aggregate_outliers"
    /\ pc = "start"
    /\ df_col' = read_csv(csv_col)
    /\ pc' = "read"
    /\ UNCHANGED <<script, bin_vars, ext_vars, csv_col, numeric_cols, q_low, q_high>>

\* the loop that detects the numeric columns
DetectNumeric ==
    /\ script = "full_aggregate_outliers"
    /\ pc = "read"
    /\ LET coerced == [i \in 1..Len(df_col) |-> to_numeric(df_col[i])]
       IN  IF \E i \in 1..Len(coerced) : notna(coerced[i])
           THEN /\ df_col' = coerced
                /\ numeric_cols' = {"col"}
           ELSE UNCHANGED <<df_col, numeric_cols>>
    /\ pc' = "detected"
    /\ UNCHANGED <<script, bin_vars, ext_vars, csv_col, q_low, q_high>>

\* df[numeric_cols] = df[numeric_cols].replace([np.inf, -np.inf], np.nan)
ReplaceInf ==
    /\ script = "full_aggregate_outliers"
    /\ pc = "detected"
    /\ df_col' = IF "col" \in numeric_cols
                 THEN [i \in 1..Len(df_col) |-> replace_inf(df_col[i])]
                 ELSE df_col
    /\ pc' = "replaced"
    /\ UNCHANGED <<script, bin_vars, ext_vars, csv_col, numeric_cols, q_low, q_high>>

\* q_low, q_high = df[numeric_cols].quantile(LOW_Q), .quantile(HIGH_Q)
ComputeThresholds ==
    /\ script = "full_aggregate_outliers"
    /\ pc = "replaced"
    /\ q_low' = IF "col" \in numeric_cols THEN quantile(df_col, LOW_Q) ELSE q_low
    /\ q_high' = IF "col" \in numeric_cols THEN quantile(df_col, HIGH_Q) ELSE q_high
    /\ pc' = "thresholds"
    /\ UNCHANGED <<script, bin_vars, ext_vars, csv_col, df_col, numeric_cols>>

\* the body of "for col in numeric_cols"
CapColumn ==
    /\ script = "full_aggregate_outliers"
    /\ pc = "thresholds"
    /\ "col" \in numeric_cols
    /\ LET lo == q_low
           hi == q_high
           filled == [i \in 1..Len(df_col) |-> fill_nan(df_col[i])]
       IN  df_col' = IF ~IsMissing(lo) /\ ~IsMissing(hi)
                     THEN [i \in 1..Len(filled) |->
                              IF mask_outlier(filled[i], lo, hi)
                              THEN Cell("dropped", 0) ELSE filled[i]]
                     ELSE filled
    /\ pc' = "capped"
    /\ UNCHANGED <<script, bin_vars, ext_vars, csv_col, numeric_cols, q_low, q_high>>

\* df.to_csv(OUT_CSV, index=False), after the loop over numeric_cols
SaveCsv ==
    /\ script = "full_aggregate_outliers"
    /\ \/ pc = "capped"
       \/ pc = "thresholds" /\ numeric_cols = {}
    /\ pc' = "done"
    /\ UNCHANGED <<script, bin_vars, ext_vars, cap_vars>>

\* the finite numbers of the column
CellValues == {0 - 1, 0, 2}

CsvCells ==
    {Cell("num", v) : v \in CellValues}
    \cup {Cell(k, 0) : k \in {"empty", "text", "inf", "-inf"}}

\* a run of full_aggregate_outliers.py on a column of at most MaxRows cells
InitCap ==
    /\ script = "full_aggregate_outliers"
    /\ pc = "start"
    /\ csv_col \in UNION {[1..n -> CsvCells] : n \in 0..MaxRows}
    /\ df_col = <<>>
    /\ numeric_cols = {}
    /\ q_low = NaN
    /\ q_high = NaN
    /\ events = <<>>
    /\ agg = "median"
    /\ agg_chunksize = 1
    /\ agg_i = 0
    /\ partial = <<>>
    /\ out = {}
    /\ input_files = {}
    /\ itemids_file = [given |-> FALSE, exists |-> FALSE, lines |-> <<>>]
    /\ itemids = <<>>
    /\ out_files = {}
    /\ events_out = {}
    /\ candidates = <<>>
    /\ df_rank = <<>>
    /\ top5 = <<>>
    /\ best = <<>>
    /\ icustays = <<>>
    /\ admissions = {}
    /\ chartevents = <<>>
    /\ procedureevents = <<>>
    /\ diagnoses = {}
    /\ chunksize = 1
    /\ chunk_no = 0
    /\ parquet_rows = <<>>
    /\ bin_hours = BIN_SIZE
    /\ transitions_df = <<>>
    /\ states = {}
    /\ next_states = {}
    /\ transitions = {}
    /\ bins_out = {}

NextCap ==
    \/ ReadCsv
    \/ DetectNumeric
    \/ ReplaceInf
    \/ ComputeThresholds
    \/ CapColumn
    \/ SaveCsv

SpecCap == InitCap /\ [][NextCap]_vars

----------------------------------------------------------------------------
(* The input files *)

\* stay_id and hadm_id of the stay
StayIds == {30}
HadmIds == {20}

OutTimes == {2 * k : k \in 0..MaxTick}

\* charttime of an event: before the stay, at intime, and at the start of the
\* second and of the third 4-hour window
EventTimes == {InTime - 2, InTime, InTime + BIN_SIZE, InTime + 2 * BIN_SIZE}

Stays == [stay_id : StayIds, hadm_id : HadmIds, intime : {InTime}, outtime : OutTimes]

\* stays with a NULL time: read by time_bins_for_bcq only
NullStays ==
    [stay_id : StayIds, hadm_id : HadmIds, intime : {NaT}, outtime : {2 * MaxTick}]
    \cup [stay_id : StayIds, hadm_id : HadmIds, intime : {InTime}, outtime : {NaT}]

AdmissionTables ==
    {{}} \cup {{a} : a \in [hadm_id : HadmIds, hospital_expire_flag : {0, 1}]}

ChartRows ==
    [stay_id : StayIds, charttime : EventTimes,
     itemid : {STATE_V_ITEMIDS[1]}, valuenum : {70, 80}]
    \cup [stay_id : StayIds, charttime : EventTimes,
          itemid : {STATE_V_ITEMIDS[2]}, valuenum : {37}]

\* starttime of a procedure: inside the first window, at the start of the second
ProcTimes == {InTime + 2, InTime + BIN_SIZE}

\* one itemid of each category, and 221214 that is in no category
ProcRows == [stay_id : StayIds, starttime : ProcTimes,
             itemid : {225794, 224263, 229351, 227194, 225802, 221214}]

\* rows of a file come in (time, itemid, value) order
ChartLeq(a, b) ==
    \/ a.charttime < b.charttime
    \/ a.charttime = b.charttime /\ a.itemid < b.itemid
    \/ a.charttime = b.charttime /\ a.itemid = b.itemid /\ a.valuenum <= b.valuenum

ProcLeq(a, b) ==
    \/ a.starttime < b.starttime
    \/ a.starttime = b.starttime /\ a.itemid <= b.itemid

SeqsUpTo(S, n) == UNION {[1..k -> S] : k \in 0..n}

ChartFiles ==
    {f \in SeqsUpTo(ChartRows, MaxEvents) :
        \A j \in 1..(Len(f) - 1) : ChartLeq(f[j], f[j + 1])}

ProcFiles ==
    {f \in SeqsUpTo(ProcRows, MaxEvents) :
        \A j \in 1..(Len(f) - 1) : ProcLeq(f[j], f[j + 1])}

Scripts == {"ddqn_processing", "ddqn_processing_2", "ddqn_duckdb", "time_bins_for_bcq"}

Min(a, b) == IF a <= b THEN a ELSE b

\* chartevents and procedureevents of a ddqn run
EventFiles ==
    {ev \in ChartFiles \X ProcFiles : Len(ev[1]) + Len(ev[2]) <= MaxEvents}

\* the event files hold MaxEvents rows in all; a chunksize beyond the length of
\* chartevents reads the file as one chunk, like chunksize = length
Init ==
    /\ \E ev \in EventFiles :
          /\ chartevents = ev[1]
          /\ procedureevents = ev[2]
    \* time_bins_for_bcq reads no procedure events
    /\ script \in IF procedureevents = <<>> THEN Scripts
                  ELSE Scripts \ {"time_bins_for_bcq"}
    /\ pc = "start"
    /\ icustays \in {<<s>> : s \in IF script = "time_bins_for_bcq"
                                   THEN Stays \cup NullStays ELSE Stays}
    /\ admissions \in IF script = "time_bins_for_bcq" THEN {{}} ELSE AdmissionTables
    /\ chunksize \in IF script = "ddqn_processing_2"
                     THEN 1..Min(MaxChunkSize, Max(1, Len(chartevents)))
                     ELSE {1}
    /\ bin_hours \in IF script = "time_bins_for_bcq" THEN {2, 4} ELSE {BIN_SIZE}
    /\ chunk_no = 0
    /\ parquet_rows = <<>>
    /\ transitions_df = <<>>
    /\ states = {}
    /\ next_states = {}
    /\ transitions = {}
    /\ bins_out = {}
    \* the stay of these runs is a sepsis stay
    /\ diagnoses = {[hadm_id |-> h, icd_version |-> 10,
                     icd_code |-> <<"A", "4", "1", "9">>] : h \in HadmIds}
    /\ csv_col = <<>>
    /\ df_col = <<>>
    /\ numeric_cols = {}
    /\ q_low = NaN
    /\ q_high = NaN
    /\ events = <<>>
    /\ agg = "median"
    /\ agg_chunksize = 1
    /\ agg_i = 0
    /\ partial = <<>>
    /\ out = {}
    /\ input_files = {}
    /\ itemids_file = [given |-> FALSE, exists |-> FALSE, lines |-> <<>>]
    /\ itemids = <<>>
    /\ out_files = {}
    /\ events_out = {}
    /\ candidates = <<>>
    /\ df_rank = <<>>
    /\ top5 = <<>>
    /\ best = <<>>

\* hours of the first 4-hour window of the stay
FirstBinTimes == InTime..(InTime + BIN_SIZE - 1)

\* chartevents with a heart rate of 70 and one of 80 in the first window, in
\* either file order
ScenarioChartFiles ==
    {<<[stay_id |-> s, charttime |-> t[1], itemid |-> STATE_V_ITEMIDS[1], valuenum |-> v[1]],
       [stay_id |-> s, charttime |-> t[2], itemid |-> STATE_V_ITEMIDS[1], valuenum |-> v[2]]>> :
        s \in StayIds, t \in FirstBinTimes \X FirstBinTimes, v \in {<<70, 80>>, <<80, 70>>}}

\* procedureevents with one ventilation event in the first window
ScenarioProcFiles ==
    {<<[stay_id |-> s, starttime |-> t, itemid |-> 225794]>> :
        s \in StayIds, t \in FirstBinTimes}

\* stays of 8, 10 and 12 hours: 3, 3 and 4 bin edges
ScenarioStays ==
    [stay_id : StayIds, hadm_id : HadmIds, intime : {InTime},
     outtime : {InTime + 2 * BIN_SIZE, InTime + 2 * BIN_SIZE + 2, InTime + 3 * BIN_SIZE}]

\* a run of ddqn_processing.py on a stay with two heart rates and a
\* ventilation in its first window and no other event
InitScenario ==
    /\ script = "ddqn_processing"
    /\ pc = "start"
    /\ icustays \in {<<s>> : s \in ScenarioStays}
    /\ admissions \in AdmissionTables
    /\ chartevents \in ScenarioChartFiles
    /\ procedureevents \in ScenarioProcFiles
    /\ diagnoses = {[hadm_id |-> h, icd_version |-> 10,
                     icd_code |-> <<"A", "4", "1", "9">>] : h \in HadmIds}
    /\ chunksize = 1
    /\ chunk_no = 0
    /\ parquet_rows = <<>>
    /\ bin_hours = BIN_SIZE
    /\ transitions_df = <<>>
    /\ states = {}
    /\ next_states = {}
    /\ transitions = {}
    /\ bins_out = {}
    /\ csv_col = <<>>
    /\ df_col = <<>>
    /\ numeric_cols = {}
    /\ q_low = NaN
    /\ q_high = NaN
    /\ events = <<>>
    /\ agg = "median"
    /\ agg_chunksize = 1
    /\ agg_i = 0
    /\ partial = <<>>
    /\ out = {}
    /\ input_files = {}
    /\ itemids_file = [given |-> FALSE, exists |-> FALSE, lines |-> <<>>]
    /\ itemids = <<>>
    /\ out_files = {}
    /\ events_out = {}
    /\ candidates = <<>>
    /\ df_rank = <<>>
    /\ top5 = <<>>
    /\ best = <<>>

NextScenario == RunNaive

SpecScenario == InitScenario /\ [][NextScenario]_vars

\* an admission other than the stay's
OtherHadmIds == {21}

\* sepsis codes, a code shorter than a prefix, one that holds a prefix after
\* its first character, and a code of another chapter
DiagCodes ==
    {<<"A", "4", "1", "9">>, <<"A", "4", "0">>, <<"R", "6", "5", "2", "0">>,
     <<"A", "4">>, <<"B", "A", "4", "1">>, <<"I", "1", "0">>}

DiagRows ==
    [hadm_id : HadmIds \cup OtherHadmIds, icd_version : {9, 10}, icd_code : DiagCodes]

\* the tables of at most MaxDiag rows
DiagTables == {{f[i] : i \in 1..Len(f)} : f \in SeqsUpTo(DiagRows, MaxDiag)}

\* chartevents with a heart rate at intime, and with a second one 4 hours later
CohortChartFiles ==
    {<<[stay_id |-> s, charttime |-> InTime, itemid |-> STATE_V_ITEMIDS[1], valuenum |-> 70]>> :
        s \in StayIds}
    \cup {<<[stay_id |-> s, charttime |-> InTime, itemid |-> STATE_V_ITEMIDS[1], valuenum |-> 70],
            [stay_id |-> s, charttime |-> InTime + BIN_SIZE, itemid |-> STATE_V_ITEMIDS[1],
             valuenum |-> 80]>> : s \in StayIds}

\* a run of one of the transition scripts on an 8-hour stay, with any
\* diagnoses table of at most MaxDiag rows
InitCohort ==
    /\ script \in {"ddqn_processing", "ddqn_processing_2", "ddqn_duckdb"}
    /\ pc = "start"
    /\ icustays \in {<<s>> : s \in [stay_id : StayIds, hadm_id : HadmIds, intime : {InTime},
                                     outtime : {InTime + 2 * BIN_SIZE}]}
    /\ admissions \in {{a} : a \in [hadm_id : HadmIds, hospital_expire_flag : {0}]}
    /\ chartevents \in CohortChartFiles
    /\ procedureevents = <<>>
    /\ diagnoses \in DiagTables
    /\ chunksize \in IF script = "ddqn_processing_2" THEN 1..Len(chartevents) ELSE {1}
    /\ chunk_no = 0
    /\ parquet_rows = <<>>
    /\ bin_hours = BIN_SIZE
    /\ transitions_df = <<>>
    /\ states = {}
    /\ next_states = {}
    /\ transitions = {}
    /\ bins_out = {}
    /\ csv_col = <<>>
    /\ df_col = <<>>
    /\ numeric_cols = {}
    /\ q_low = NaN
    /\ q_high = NaN
    /\ events = <<>>
    /\ agg = "median"
    /\ agg_chunksize = 1
    /\ agg_i = 0
    /\ partial = <<>>
    /\ out = {}
    /\ input_files = {}
    /\ itemids_file = [given |-> FALSE, exists |-> FALSE, lines |-> <<>>]
    /\ itemids = <<>>
    /\ out_files = {}
    /\ events_out = {}
    /\ candidates = <<>>
    /\ df_rank = <<>>
    /\ top5 = <<>>
    /\ best = <<>>

NextCohort ==
    \/ RunNaive
    \/ ProcessChunk
    \/ SaveDataset
    \/ BuildStates
    \/ BuildNextStates
    \/ BuildTransitions

SpecCohort == InitCohort /\ [][NextCohort]_vars

Next ==
    \/ RunNaive
    \/ ProcessChunk
    \/ SaveDataset
    \/ BuildStates
    \/ BuildNextStates
    \/ BuildTransitions
    \/ WriteBins

Spec == Init /\ [][Next]_vars

----------------------------------------------------------------------------
(* ddqn/build_transitions_table.py run on a states file of two stays *)

\* a second stay, of a second admission
TransStays ==
    <<[stay_id |-> 30, hadm_id |-> 20, intime |-> InTime, outtime |-> InTime + 3 * BIN_SIZE],
      [stay_id |-> 31, hadm_id |-> 21, intime |-> InTime, outtime |-> InTime + 3 * BIN_SIZE]>>

\* state_4h.parquet: one row per (stay_id, bin) for any set of (stay, bin)
\* pairs, the heart rate of a row known in the even bins
StatesTables ==
    {{[stay_id |-> k[1], bin |-> k[2],
       v |-> [j \in 1..Len(STATE_V_ITEMIDS) |->
                 IF j = 1 /\ k[2] % 2 = 0 THEN Num(70 + k[2]) ELSE NaN]] : k \in keys} :
        keys \in SUBSET ({30, 31} \X (0..2))}

\* procedure events of the first stay: inside bin 0 and at the start of bin 1
TransProcRows == [stay_id : {30}, starttime : ProcTimes, itemid : {225794, 229351, 221214}]

\* the tables as build_transitions_table.py has loaded them
InitTrans ==
    /\ script = "ddqn_duckdb"
    /\ pc = "states"
    /\ states \in StatesTables
    /\ icustays \in {TransStays, SubSeq(TransStays, 1, 1)}
    /\ admissions \in AdmissionTables
    /\ procedureevents \in SeqsUpTo(TransProcRows, MaxEvents)
    /\ chartevents = <<>>
    /\ next_states = {}
    /\ transitions = {}
    /\ diagnoses = {}
    /\ chunksize = 1
    /\ chunk_no = 0
    /\ parquet_rows = <<>>
    /\ bin_hours = BIN_SIZE
    /\ transitions_df = <<>>
    /\ bins_out = {}
    /\ csv_col = <<>>
    /\ df_col = <<>>
    /\ numeric_cols = {}
    /\ q_low = NaN
    /\ q_high = NaN
    /\ events = <<>>
    /\ agg = "median"
    /\ agg_chunksize = 1
    /\ agg_i = 0
    /\ partial = <<>>
    /\ out = {}
    /\ input_files = {}
    /\ itemids_file = [given |-> FALSE, exists |-> FALSE, lines |-> <<>>]
    /\ itemids = <<>>
    /\ out_files = {}
    /\ events_out = {}
    /\ candidates = <<>>
    /\ df_rank = <<>>
    /\ top5 = <<>>
    /\ best = <<>>

NextTrans ==
    \/ BuildNextStates
    \/ BuildTransitions

SpecTrans == InitTrans /\ [][NextTrans]_vars

----------------------------------------------------------------------------
(* merging_files.py: aggregate_events_to_patient_features *)

\* A row of the events file is [subject_id, itemid, valuenum], each a cell
\* as in full_aggregate_outliers.  A value is a fraction [num, den] in lowest
\* terms, den > 0.

\* the fraction n / d in lowest terms (n >= 0, d > 0)
Rat(n, d) == LET g == GCD(n, d) IN [num |-> n \div g, den |-> d \div g]

RatLeq(a, b) == a.num * b.den <= b.num * a.den

RatAdd(a, b) == Rat(a.num * b.den + b.num * a.den, a.den * b.den)

RECURSIVE RatSum(_)
RatSum(s) == IF s = <<>> THEN Num(0) ELSE RatAdd(Head(s), RatSum(Tail(s)))

RECURSIVE RatSorted(_)
\* the fractions of s in ascending order
RatSorted(s) ==
    IF s = <<>> THEN <<>>
    ELSE LET m == CHOOSE i \in 1..Len(s) : \A j \in 1..Len(s) : RatLeq(s[i], s[j])
             rest == [k \in 1..(Len(s) - 1) |-> IF k < m THEN s[k] ELSE s[k + 1]]
         IN  <<s[m]>> \o RatSorted(rest)

\* the itemids kept and their sanitized feature names (two itemids of one
\* feature, as feature_itemid_top5.csv lists up to five per feature)
itemid_to_feature ==
    (220045 :> "heart_rate") @@ (220046 :> "heart_rate") @@ (220277 :> "spo2")

wanted_itemids == DOMAIN itemid_to_feature

\* mutant of series_agg: the first value of the group stands for the group
series_agg_first(vals, how) == vals[1]

\* Series.median(), .mean(), .max(), .min() of the non-empty group vals
series_agg(vals, how) ==
    LET x == RatSorted(vals)
        n == Len(x)
    IN  CASE how = "median" ->
                IF n % 2 = 1 THEN x[(n + 1) \div 2]
                ELSE LET t == RatAdd(x[n \div 2], x[n \div 2 + 1])
                     IN  Rat(t.num, 2 * t.den)
          [] how = "mean" -> LET t == RatSum(x) IN Rat(t.num, n * t.den)
          [] how = "max" -> x[n]
          [] how = "min" -> x[1]

\* a chunk as pd.read_csv returns it: the empty fields are NaN
read_chunk(rows) ==
    [i \in 1..Len(rows) |->
        [subject_id |-> read_csv(<<rows[i].subject_id>>)[1],
         itemid |-> read_csv(<<rows[i].itemid>>)[1],
         valuenum |-> read_csv(<<rows[i].valuenum>>)[1]]]

\* the rows of a chunk that reach the groupby: itemid wanted, valuenum
\* coerced to a number, none of valuenum, subject_id and itemid missing; the
\* feature is looked up for each
chunk_kept(rows) ==
    LET wanted == SelectSeq(read_chunk(rows),
                     LAMBDA r : r.itemid.kind = "num" /\ r.itemid.val \in wanted_itemids)
        coerced == [i \in 1..Len(wanted) |->
                       [wanted[i] EXCEPT !.valuenum = to_numeric(wanted[i].valuenum)]]
        kept == SelectSeq(coerced,
                     LAMBDA r : notna(r.valuenum) /\ notna(r.subject_id) /\ notna(r.itemid))
    IN  [i \in 1..Len(kept) |->
            [subject_id |-> kept[i].subject_id.val,
             feature |-> itemid_to_feature[kept[i].itemid.val],
             valuenum |-> Num(kept[i].valuenum.val)]]

\* frame.groupby(["subject_id", "feature"])[col].<how>().reset_index(), the
\* frame given as its rows [subject_id, feature, value]
groupby_agg(frame, how) ==
    {[subject_id |-> k[1], feature |-> k[2],
      value |-> series_agg(
                    LET g == SelectSeq(frame,
                                 LAMBDA r : r.subject_id = k[1] /\ r.feature = k[2])
                    IN  [i \in 1..Len(g) |-> g[i].value], how)] :
        k \in {<<frame[i].subject_id, frame[i].feature>> : i \in 1..Len(frame)}}

\* the body of "for i, chunk in enumerate(reader, start=1)": what the chunk
\* appends to partial (nothing when no row is kept)
chunk_partial(rows, how) ==
    LET kept == chunk_kept(rows)
        frame == [i \in 1..Len(kept) |->
                     [subject_id |-> kept[i].subject_id, feature |-> kept[i].feature,
                      value |-> kept[i].valuenum]]
    IN  IF kept = <<>> THEN <<>> ELSE <<groupby_agg(frame, how)>>

RECURSIVE SetToSeq(_)
\* the rows of a frame one after the other
SetToSeq(S) ==
    IF S = {} THEN <<>> ELSE LET r == CHOOSE r \in S : TRUE IN <<r>> \o SetToSeq(S \ {r})

\* what follows the loop: pd.concat(partial) and the aggregate across chunks
final_aggregate(parts, how) ==
    IF parts = <<>> THEN {}
    ELSE groupby_agg(Concat([k \in 1..Len(parts) |-> SetToSeq(parts[k])]), how)

\* aggregate_events_to_patient_features on the file f read c rows at a time
aggregate_events_to_patient_features(f, c, how) ==
    final_aggregate(
        Concat([k \in 1..NumChunks(Len(f), c) |-> chunk_partial(ChunkOf(f, c, k), how)]),
        how)

\* one iteration of "for i, chunk in enumerate(reader, start=1)"
AggregateChunk ==
    /\ script = "merging_files"
    /\ pc = "start"
    /\ agg_i < NumChunks(Len(events), agg_chunksize)
    /\ partial' = partial \o chunk_partial(ChunkOf(events, agg_chunksize, agg_i + 1), agg)
    /\ agg_i' = agg_i + 1
    /\ UNCHANGED <<script, pc, bin_vars, cap_vars, bcq_vars, sel_vars,
                   events, agg, agg_chunksize, out>>

\* the statements after the loop, up to "return out"
AggregateFinal ==
    /\ script = "merging_files"
    /\ pc = "start"
    /\ agg_i = NumChunks(Len(events), agg_chunksize)
    /\ out' = final_aggregate(partial, agg)
    /\ pc' = "done"
    /\ UNCHANGED <<script, bin_vars, cap_vars, bcq_vars, sel_vars,
                   events, agg, agg_chunksize, agg_i, partial>>

\* rows of the events file
MaxAggRows == 4

\* the rows an events file is made of: numeric events of two subjects and
\* two features, and the rows the function discards
EventRows ==
    {[subject_id |-> Cell("num", 1), itemid |-> Cell("num", 220045), valuenum |-> Cell("num", 0)],
     [subject_id |-> Cell("num", 1), itemid |-> Cell("num", 220045), valuenum |-> Cell("num", 3)],
     [subject_id |-> Cell("num", 1), itemid |-> Cell("num", 220046), valuenum |-> Cell("num", 1)],
     [subject_id |-> Cell("num", 2), itemid |-> Cell("num", 220277), valuenum |-> Cell("num", 3)],
     [subject_id |-> Cell("num", 1), itemid |-> Cell("num", 220045), valuenum |-> Cell("text", 0)],
     [subject_id |-> Cell("empty", 0), itemid |-> Cell("num", 220045), valuenum |-> Cell("num", 3)],
     [subject_id |-> Cell("num", 1), itemid |-> Cell("empty", 0), valuenum |-> Cell("num", 3)],
     [subject_id |-> Cell("num", 1), itemid |-> Cell("num", 220050), valuenum |-> Cell("num", 3)]}

AggFuncs == {"median", "mean", "max", "min"}

\* a call of aggregate_events_to_patient_features on a file of at most
\* MaxAggRows rows
InitAgg ==
    /\ script = "merging_files"
    /\ pc = "start"
    /\ events \in SeqsUpTo(EventRows, MaxAggRows)
    /\ agg \in AggFuncs
    /\ agg_chunksize \in 1..MaxChunkSize
    /\ agg_i = 0
    /\ partial = <<>>
    /\ out = {}
    /\ input_files = {}
    /\ itemids_file = [given |-> FALSE, exists |-> FALSE, lines |-> <<>>]
    /\ itemids = <<>>
    /\ out_files = {}
    /\ events_out = {}
    /\ candidates = <<>>
    /\ df_rank = <<>>
    /\ top5 = <<>>
    /\ best = <<>>
    /\ csv_col = <<>>
    /\ df_col = <<>>
    /\ numeric_cols = {}
    /\ q_low = NaN
    /\ q_high = NaN
    /\ icustays = <<>>
    /\ admissions = {}
    /\ chartevents = <<>>
    /\ procedureevents = <<>>
    /\ diagnoses = {}
    /\ chunksize = 1
    /\ chunk_no = 0
    /\ parquet_rows = <<>>
    /\ bin_hours = BIN_SIZE
    /\ transitions_df = <<>>
    /\ states = {}
    /\ next_states = {}
    /\ transitions = {}
    /\ bins_out = {}

NextAgg ==
    \/ AggregateChunk
    \/ AggregateFinal

SpecAgg == InitAgg /\ [][NextAgg]_vars

----------------------------------------------------------------------------
(* time_bins_for_bcq.py: main, from the arguments to the events file *)

\* Here a chartevents row has a nullable valuenum ([null, val]) and a
\* charttime that may be NaT.  A line of the itemids file is a sequence of
\* characters.  --include-labs is left at its default (off).

\* mutant of pick_existing: the first candidate, whether it exists or not
pick_existing_first(cands, present) == cands[1]

\* pick_existing(*candidates): the first candidate that exists
pick_existing(cands, present) ==
    IF \E i \in 1..Len(cands) : cands[i] \in present
    THEN cands[CHOOSE i \in 1..Len(cands) :
                  /\ cands[i] \in present
                  /\ \A j \in 1..(i - 1) : cands[j] \notin present]
    ELSE "FileNotFoundError"

IcustaysPaths == <<"icu/icustays.csv.gz", "icu/icustays.csv">>
CharteventsPaths == <<"icu/chartevents.csv.gz", "icu/chartevents.csv">>

Whitespace == {" "}
Digits == <<"0", "1", "2", "3", "4", "5", "6", "7", "8", "9">>

RECURSIVE lstrip(_)
lstrip(l) == IF l # <<>> /\ Head(l) \in Whitespace THEN lstrip(Tail(l)) ELSE l

RECURSIVE rstrip(_)
rstrip(l) ==
    IF l # <<>> /\ l[Len(l)] \in Whitespace THEN rstrip(SubSeq(l, 1, Len(l) - 1)) ELSE l

\* str.strip()
strip(l) == rstrip(lstrip(l))

\* str.isdigit()
isdigit(l) == l # <<>> /\ \A i \in 1..Len(l) : \E d \in 1..10 : l[i] = Digits[d]

\* [line.strip() for line in lines if line.strip().isdigit()]
read_itemids(lines) ==
    LET kept == SelectSeq(lines, LAMBDA l : isdigit(strip(l)))
    IN  [k \in 1..Len(kept) |-> strip(kept[k])]

RECURSIVE ToInt(_)
\* the number a string of digits denotes in the SQL text
ToInt(l) ==
    IF l = <<>> THEN 0
    ELSE 10 * ToInt(SubSeq(l, 1, Len(l) - 1))
         + (CHOOSE d \in 1..10 : l[Len(l)] = Digits[d]) - 1

\* lines 47-75: the input paths are picked and the itemids file is read;
\* a missing input raises
PickInputs ==
    /\ script = "time_bins_for_bcq"
    /\ pc = "args"
    /\ LET icustays_path == pick_existing(IcustaysPaths, input_files)
           chartevents_path == pick_existing(CharteventsPaths, input_files)
           ids == IF itemids_file.given /\ itemids_file.exists
                  THEN read_itemids(itemids_file.lines) ELSE <<>>
       IN  IF \/ icustays_path = "FileNotFoundError"
              \/ chartevents_path = "FileNotFoundError"
              \/ itemids_file.given /\ ~itemids_file.exists
              \/ itemids_file.given /\ ids = <<>>
           THEN /\ pc' = "raised"
                /\ UNCHANGED itemids
           ELSE /\ pc' = "picked"
                /\ itemids' = ids
    /\ UNCHANGED <<script, bin_vars, cap_vars, agg_vars, sel_vars,
                   input_files, itemids_file, out_files, events_out>>

\* lines 77-89: the connection is opened and the output files of an earlier
\* run are removed
RemoveOutputs ==
    /\ script = "time_bins_for_bcq"
    /\ pc = "picked"
    /\ out_files' = {}
    /\ bins_out' = {}
    /\ events_out' = {}
    /\ pc' = "start"
    /\ UNCHANGED <<script, icustays, admissions, chartevents, procedureevents,
                   chunksize, chunk_no, parquet_rows, bin_hours, transitions_df,
                   states, next_states, transitions, diagnoses>>
    /\ UNCHANGED <<cap_vars, agg_vars, sel_vars, input_files, itemids_file, itemids>>

\* mutant of bin_idx_of: CEIL in the place of FLOOR
bin_idx_ceil(charttime, intime, bin_seconds) ==
    CeilDiv((charttime - intime) * 3600, bin_seconds)

\* CAST(FLOOR(EXTRACT(EPOCH FROM (charttime - intime)) / bin_seconds) AS BIGINT)
bin_idx_of(charttime, intime, bin_seconds) ==
    ((charttime - intime) * 3600) \div bin_seconds

\* the view chart_binned: a row for each pair of a chartevents row j and an
\* icu_stays row i that passes the join and the WHERE clause
chart_binned(ces, stays, ids, hours) ==
    LET bin_seconds == hours * 3600
        listed == {ToInt(ids[k]) : k \in 1..Len(ids)}
        pairs == {p \in (1..Len(ces)) \X (1..Len(stays)) :
                     LET c == ces[p[1]]
                         st == stays[p[2]]
                     IN  /\ c.stay_id = st.stay_id
                         /\ c.charttime # NaT
                         /\ st.intime # NaT
                         /\ st.outtime # NaT
                         /\ c.charttime >= st.intime
                         /\ c.charttime < st.outtime
                         /\ ~c.valuenum.null
                         /\ (ids # <<>> => c.itemid \in listed)
                         /\ (c.charttime - st.intime) * 3600 >= 0}
    IN  {[src |-> p,
          stay_id |-> stays[p[2]].stay_id,
          bin_idx |-> bin_idx_of(ces[p[1]].charttime, stays[p[2]].intime, bin_seconds),
          itemid |-> ces[p[1]].itemid,
          event_time |-> ces[p[1]].charttime,
          valuenum |-> ces[p[1]].valuenum.val] : p \in pairs}

\* the values arg_max(valuenum, event_time) may return for a group: a value
\* of a row with the latest event_time
ArgMaxValues(g) ==
    {r.valuenum : r \in {x \in g : \A y \in g : y.event_time <= x.event_time}}

\* the view chart_agg: the tables the GROUP BY may return (arg_max is free
\* to take any row among those with the latest event_time)
chart_agg(binned) ==
    LET rows == {r \in binned : r.bin_idx >= 0}
        keys == {<<r.stay_id, r.bin_idx, r.itemid>> : r \in rows}
        group(k) == {r \in rows : <<r.stay_id, r.bin_idx, r.itemid>> = k}
        vals(k) == LET q == SetToSeq(group(k)) IN [j \in 1..Len(q) |-> q[j].valuenum]
        lasts == {f \in [keys -> {r.valuenum : r \in rows}] :
                     \A k \in keys : f[k] \in ArgMaxValues(group(k))}
    IN  {{[stay_id |-> k[1], bin_idx |-> k[2], itemid |-> k[3], source |-> "chart",
           n |-> Cardinality(group(k)),
           mean_valuenum |-> MeanOf(vals(k)),
           min_valuenum |-> Least(vals(k)),
           max_valuenum |-> Greatest(vals(k)),
           last_valuenum |-> f[k]] : k \in keys} : f \in lasts}

\* the last COPY: bins b JOIN ev ON ev.stay_id = b.stay_id AND ev.bin_idx = b.bin_idx
EventsQuery(bins, ev) ==
    {[stay_id |-> b.stay_id, bin_idx |-> b.bin_idx,
      bin_start |-> b.bin_start, bin_end |-> b.bin_end,
      itemid |-> e.itemid, source |-> e.source, n |-> e.n,
      mean_valuenum |-> e.mean_valuenum, min_valuenum |-> e.min_valuenum,
      max_valuenum |-> e.max_valuenum, last_valuenum |-> e.last_valuenum] :
        <<b, e>> \in {x \in bins \X ev : x[2].stay_id = x[1].stay_id
                                         /\ x[2].bin_idx = x[1].bin_idx}}

\* lines 139-250: the views chart_binned and chart_agg are defined and the
\* join of the bins file with chart_agg is written
WriteEvents ==
    /\ script = "time_bins_for_bcq"
    /\ pc = "bins"
    /\ \E ev \in chart_agg(chart_binned(chartevents, icustays, itemids, bin_hours)) :
          events_out' = EventsQuery(bins_out, ev)
    /\ out_files' = out_files \cup {"events"}
    /\ pc' = "done"
    /\ UNCHANGED <<script, bin_vars, cap_vars, agg_vars, sel_vars,
                   input_files, itemids_file, itemids>>

\* lines of the itemids file
MaxLines == 2

\* the lines an itemids file is made of: an itemid, an itemid between
\* blanks, a word, an empty line
ItemidLines ==
    {<<"2", "2", "0", "0", "4", "5">>, <<" ", "2", "2", "3", "7", "6", "2", " ">>,
     <<"h", "r">>, <<>>}

ItemidsFiles ==
    {[given |-> FALSE, exists |-> FALSE, lines |-> <<>>],
     [given |-> TRUE, exists |-> FALSE, lines |-> <<>>]}
    \cup {[given |-> TRUE, exists |-> TRUE, lines |-> l] : l \in SeqsUpTo(ItemidLines, MaxLines)}

InputPaths == {IcustaysPaths[i] : i \in 1..2} \cup {CharteventsPaths[i] : i \in 1..2}

\* charttime of an event of these runs: NULL, before the stay, at intime,
\* inside the first window, at the start of the second
BcqEventTimes == {NaT, InTime - 2, InTime, InTime + 3, InTime + BIN_SIZE}

BcqChartRows ==
    [stay_id : StayIds, charttime : BcqEventTimes,
     itemid : {STATE_V_ITEMIDS[1]}, valuenum : {Sql(70), Sql(80), SqlNull}]
    \cup [stay_id : StayIds, charttime : BcqEventTimes,
          itemid : {STATE_V_ITEMIDS[2]}, valuenum : {Sql(37)}]

\* a stale row of an output file left by an earlier run
StaleBins == {[stay_id |-> 30, bin_idx |-> 0, bin_start |-> 0, bin_end |-> 4]}

\* a run of time_bins_for_bcq.py: either any of the inputs may be absent and
\* outputs of an earlier run may exist, or the inputs exist and hold any
\* stay and up to MaxEvents chart events
InitBcq ==
    /\ script = "time_bins_for_bcq"
    /\ pc = "args"
    /\ \/ /\ input_files \in SUBSET InputPaths
          /\ itemids_file \in ItemidsFiles
          /\ out_files \in SUBSET {"bins", "events"}
          /\ icustays = <<>>
          /\ chartevents = <<>>
       \/ /\ input_files = {IcustaysPaths[1], CharteventsPaths[1]}
          /\ itemids_file \in {[given |-> FALSE, exists |-> FALSE, lines |-> <<>>],
                               [given |-> TRUE, exists |-> TRUE,
                                lines |-> <<<<"2", "2", "0", "0", "4", "5">>>>]}
          /\ out_files = {}
          /\ icustays \in {<<s>> : s \in Stays \cup NullStays}
          /\ chartevents \in SeqsUpTo(BcqChartRows, MaxEvents)
    /\ bins_out = IF "bins" \in out_files THEN StaleBins ELSE {}
    /\ events_out = {}
    /\ itemids = <<>>
    /\ bin_hours = BIN_SIZE
    /\ admissions = {}
    /\ procedureevents = <<>>
    /\ diagnoses = {}
    /\ chunksize = 1
    /\ chunk_no = 0
    /\ parquet_rows = <<>>
    /\ transitions_df = <<>>
    /\ states = {}
    /\ next_states = {}
    /\ transitions = {}
    /\ csv_col = <<>>
    /\ df_col = <<>>
    /\ numeric_cols = {}
    /\ q_low = NaN
    /\ q_high = NaN
    /\ events = <<>>
    /\ agg = "median"
    /\ agg_chunksize = 1
    /\ agg_i = 0
    /\ partial = <<>>
    /\ out = {}
    /\ candidates = <<>>
    /\ df_rank = <<>>
    /\ top5 = <<>>
    /\ best = <<>>

NextBcq ==
    \/ PickInputs
    \/ RemoveOutputs
    \/ WriteBins
    \/ WriteEvents

SpecBcq == InitBcq /\ [][NextBcq]_vars

----------------------------------------------------------------------------
(* sepsis_further_selection.py: main *)

\* A row of df is [index, feature, source, score]: index is the row label
\* read_csv gives (the position in the file, from 0), score the value
\* score_row returned for the row.

\* the strings of the feature and source columns, in the order of str
StringOrder == <<"heart rate", "hosp/d_labitems", "icu/d_items", "spo2">>

StrRank(a) == CHOOSE i \in 1..Len(StringOrder) : StringOrder[i] = a

StrLess(a, b) == StrRank(a) < StrRank(b)

\* mutant of SortsBefore: the score ascending as well
SortsBefore_ascending(a, b) ==
    \/ StrLess(a.feature, b.feature)
    \/ a.feature = b.feature /\ StrLess(a.source, b.source)
    \/ a.feature = b.feature /\ a.source = b.source /\ a.score < b.score

\* row a comes before row b under sort_values(["feature", "source", "score"],
\* ascending=[True, True, False])
SortsBefore(a, b) ==
    \/ StrLess(a.feature, b.feature)
    \/ a.feature = b.feature /\ StrLess(a.source, b.source)
    \/ a.feature = b.feature /\ a.source = b.source /\ a.score > b.score

\* df.sort_values(...): rows that compare equal keep their order, so the
\* row at position i moves behind the rows that sort before it and the equal
\* rows above it
sort_values(df) ==
    CHOOSE sorted \in
        {[p \in 1..Len(df) |-> df[CHOOSE i \in 1..Len(df) : pos[i] = p]] :
            pos \in {[i \in 1..Len(df) |->
                        1 + Cardinality({j \in 1..Len(df) :
                                \/ SortsBefore(df[j], df[i])
                                \/ j < i /\ ~SortsBefore(df[i], df[j])})]}} : TRUE

\* df.groupby(["feature", "source"]).cumcount() of the row at position i
cumcount(df, i) ==
    Cardinality({j \in 1..(i - 1) : /\ df[j].feature = df[i].feature
                                    /\ df[j].source = df[i].source})

\* lines 144-145: the sort and the rank within (feature, source)
RankCandidates ==
    /\ script = "sepsis_further_selection"
    /\ pc = "start"
    /\ \E df \in {sort_values(candidates)} :
          df_rank' = [i \in 1..Len(df) |->
                         [index |-> df[i].index, feature |-> df[i].feature,
                          source |-> df[i].source, score |-> df[i].score,
                          rank_within_source |-> cumcount(df, i) + 1]]
    /\ pc' = "ranked"
    /\ UNCHANGED <<script, bin_vars, cap_vars, agg_vars, bcq_vars, candidates, top5, best>>

\* lines 147-148: top5 = df[df["rank_within_source"] <= 5], saved
WriteTop5 ==
    /\ script = "sepsis_further_selection"
    /\ pc = "ranked"
    /\ top5' = SelectSeq(df_rank, LAMBDA r : r.rank_within_source <= 5)
    /\ pc' = "top5"
    /\ UNCHANGED <<script, bin_vars, cap_vars, agg_vars, bcq_vars, candidates, df_rank, best>>

\* lines 150-151: best = df[df["rank_within_source"] == 1], saved
WriteBest ==
    /\ script = "sepsis_further_selection"
    /\ pc = "top5"
    /\ best' = SelectSeq(df_rank, LAMBDA r : r.rank_within_source = 1)
    /\ pc' = "done"
    /\ UNCHANGED <<script, bin_vars, cap_vars, agg_vars, bcq_vars, candidates, df_rank, top5>>

\* rows of the candidates file
MaxCandidates == 7

\* the rows a candidates file is made of: two scores score_row gives (the
\* source alone, an exact label) in one group, and a row each of a second
\* source and of a second feature
CandidateRows ==
    [feature : {"heart rate"}, source : {"icu/d_items"}, score : {2, 24}]
    \cup {[feature |-> "heart rate", source |-> "hosp/d_labitems", score |-> 24],
          [feature |-> "spo2", source |-> "icu/d_items", score |-> 2]}

\* a run of sepsis_further_selection.py on a file of at most MaxCandidates
\* rows, after the score column is filled
InitSel ==
    /\ script = "sepsis_further_selection"
    /\ pc = "start"
    /\ \E f \in SeqsUpTo(CandidateRows, MaxCandidates) :
          candidates = [i \in 1..Len(f) |->
                           [index |-> i - 1, feature |-> f[i].feature,
                            source |-> f[i].source, score |-> f[i].score]]
    /\ df_rank = <<>>
    /\ top5 = <<>>
    /\ best = <<>>
    /\ input_files = {}
    /\ itemids_file = [given |-> FALSE, exists |-> FALSE, lines |-> <<>>]
    /\ itemids = <<>>
    /\ out_files = {}
    /\ events_out = {}
    /\ bins_out = {}
    /\ icustays = <<>>
    /\ chartevents = <<>>
    /\ bin_hours = BIN_SIZE
    /\ admissions = {}
    /\ procedureevents = <<>>
    /\ diagnoses = {}
    /\ chunksize = 1
    /\ chunk_no = 0
    /\ parquet_rows = <<>>
    /\ transitions_df = <<>>
    /\ states = {}
    /\ next_states = {}
    /\ transitions = {}
    /\ csv_col = <<>>
    /\ df_col = <<>>
    /\ numeric_cols = {}
    /\ q_low = NaN
    /\ q_high = NaN
    /\ events = <<>>
    /\ agg = "median"
    /\ agg_chunksize = 1
    /\ agg_i = 0
    /\ partial = <<>>
    /\ out = {}

NextSel ==
    \/ RankCandidates
    \/ WriteTop5
    \/ WriteBest

SpecSel == InitSel /\ [][NextSel]_vars

----------------------------------------------------------------------------
(* What the claims speak about *)

\* the stay of the run
TheStay == icustays[1]

\* the bin edges make_bins returns for the stay
StayBins == make_bins(TheStay.intime, TheStay.outtime)

\* the admission of the stay ended in death
StayDied ==
    \E a \in admissions : a.hadm_id = TheStay.hadm_id /\ a.hospital_expire_flag = 1

Pandas == {"ddqn_processing", "ddqn_processing_2"}

\* the rows a pandas script has produced so far
PandasRows == IF script = "ddqn_processing_2" THEN parquet_rows ELSE transitions_df

\* rows j of a sequence of rows with done = 1
DoneRows(rows) == {j \in 1..Len(rows) : rows[j].done = 1}

\* rows form b blocks of n rows each, the last row of a block alone has done = 1
Blocks(rows, b, n) ==
    /\ Len(rows) = b * n
    /\ \A j \in 1..Len(rows) : rows[j].done = (IF j % n = 0 THEN 1 ELSE 0)

\* C1: in the pandas builders a stay whose make_bins result has N >= 2 elements
\* gets exactly N - 1 transitions from one call of build_transitions_for_stay,
\* the last with done = 1 and every earlier one with done = 0.  The naive
\* script calls the builder once for the stay; the chunked script has called
\* it chunk_no times and appended each result.
C1_TransitionsPerCall ==
    Len(StayBins) >= 2 =>
        /\ (script = "ddqn_processing" /\ pc = "done")
              => Blocks(transitions_df, 1, Len(StayBins) - 1)
        /\ script = "ddqn_processing_2"
              => Blocks(parquet_rows, chunk_no, Len(StayBins) - 1)

C1_Witness ==
    /\ script = "ddqn_processing"
    /\ pc = "done"
    /\ Len(StayBins) = 3
    /\ Len(transitions_df) = 2
    /\ transitions_df[1].done = 0
    /\ transitions_df[2].done = 1

\* C2: in the chunked script, once all chunks are processed, the output table
\* holds for a stay with N >= 2 bins exactly N - 1 transitions and exactly one
\* transition with done = 1, whatever the number of chunks.
C2_ChunkIndependent ==
    (script = "ddqn_processing_2" /\ pc = "done" /\ Len(StayBins) >= 2) =>
        /\ Len(transitions_df) = Len(StayBins) - 1
        /\ Cardinality(DoneRows(transitions_df)) = 1

\* C3: a transition with done = 1 has reward +1 or -1, and -1 exactly when the
\* hospital_expire_flag of the stay's admission is 1; in the naive and the
\* chunked pandas table and in the DuckDB transitions table.
C3_TerminalReward ==
    /\ script \in Pandas =>
          \A j \in DoneRows(PandasRows) :
              /\ PandasRows[j].reward \in {1, -1}
              /\ PandasRows[j].reward = -1 <=> StayDied
    /\ \A r \in transitions :
          r.done = 1 => /\ r.reward \in {1, -1}
                        /\ r.reward = -1 <=> StayDied

C3_Witness ==
    /\ script = "ddqn_duckdb"
    /\ StayDied
    /\ \E r \in transitions : r.done = 1 /\ r.reward = -1

\* C4: a transition with done = 0 has reward 0, so a reward other than 0 is
\* on a row with done = 1 only; in all three tables.
C4_NonTerminalReward ==
    /\ script \in Pandas =>
          \A j \in 1..Len(PandasRows) :
              /\ PandasRows[j].done = 0 => PandasRows[j].reward = 0
              /\ PandasRows[j].reward # 0 => PandasRows[j].done = 1
    /\ \A r \in transitions :
          /\ r.done = 0 => r.reward = 0
          /\ r.reward # 0 => r.done = 1

C4_Witness ==
    /\ script = "ddqn_duckdb"
    /\ \E r \in transitions : r.done = 0 /\ r.reward = 0
    /\ \E r \in transitions : r.done = 1 /\ r.reward # 0

\* the stay ends after it begins and every chart event is charted inside it
EventsInsideStay ==
    /\ TheStay.outtime > TheStay.intime
    /\ \A j \in 1..Len(chartevents) :
          /\ chartevents[j].charttime >= TheStay.intime
          /\ chartevents[j].charttime < TheStay.outtime

\* C5: the next-state of a non-terminal transition equals, slot by slot and
\* with a missing slot staying missing, the current state of the stay's
\* following transition; in the pandas tables and in the DuckDB table.
\* Stated for the runs whose chart events all lie inside the stay.
C5_NextStateIsFollowingState ==
    EventsInsideStay =>
    /\ script \in Pandas =>
          \A j \in 1..Len(PandasRows) :
              PandasRows[j].done = 0 =>
                  /\ j + 1 <= Len(PandasRows)
                  /\ PandasRows[j].s_next = PandasRows[j + 1].s
    /\ \A r \in transitions :
          r.done = 0 =>
              \E x \in LeadRows(transitions, r) : r.s_next = x.s

\* C6: in the DuckDB pipeline the bins of a stay's rows are consecutive: the
\* row after bin b is the row of bin b + 1 (LEAD(bin) = bin + 1).
\* Stated for the runs whose chart events all lie inside the stay.
C6_ConsecutiveBins ==
    EventsInsideStay =>
        \A r \in next_states : ~r.next_bin.null => r.next_bin.val = r.bin + 1

\* C7: for a stay with outtime > intime the windows [bins[i], bins[i+1]) of
\* the pandas builders are contiguous, start at intime and cover exactly
\* [intime, outtime), the final partial window included.
C7_WindowsCoverStay ==
    (script \in Pandas /\ pc = "done" /\ TheStay.outtime > TheStay.intime) =>
        /\ Len(StayBins) >= 2
        /\ StayBins[1] = TheStay.intime
        /\ \A i \in 1..(Len(StayBins) - 1) : StayBins[i] < StayBins[i + 1]
        /\ \A t \in TheStay.intime..(TheStay.outtime - 1) :
              \E i \in 1..(Len(StayBins) - 1) : StayBins[i] <= t /\ t < StayBins[i + 1]
        /\ StayBins[Len(StayBins)] = TheStay.outtime

\* C8: time_bins_for_bcq writes, for a stay with non-null intime < outtime and
\* bin width W, exactly n = ceil((outtime - intime) / W) rows with bin_idx
\* 0..n-1, bin_start(0) = intime, bin_end(i) = bin_start(i+1), every bin_start
\* in [intime, outtime), the bins covering [intime, outtime); a stay with a
\* null time or with outtime <= intime gets no row.
C8_BinsTable ==
    (script = "time_bins_for_bcq" /\ pc = "bins") =>
        IF TheStay.intime # NaT /\ TheStay.outtime # NaT
           /\ TheStay.intime < TheStay.outtime
        THEN \E n \in 1..(TheStay.outtime - TheStay.intime) :
                /\ n * bin_hours >= TheStay.outtime - TheStay.intime
                /\ (n - 1) * bin_hours < TheStay.outtime - TheStay.intime
                /\ Cardinality(bins_out) = n
                /\ {b.bin_idx : b \in bins_out} = 0..(n - 1)
                /\ \A b \in bins_out :
                      /\ b.stay_id = TheStay.stay_id
                      /\ b.bin_idx = 0 => b.bin_start = TheStay.intime
                      /\ b.bin_start >= TheStay.intime
                      /\ b.bin_start < TheStay.outtime
                      /\ b.bin_end = b.bin_start + bin_hours
                      /\ \A c \in bins_out :
                            c.bin_idx = b.bin_idx + 1 => b.bin_end = c.bin_start
                /\ \A t \in TheStay.intime..(TheStay.outtime - 1) :
                      \E b \in bins_out : b.bin_start <= t /\ t < b.bin_end
        ELSE bins_out = {}

\* a stay whose last bin is a partial one
C8_Witness ==
    /\ script = "time_bins_for_bcq"
    /\ pc = "bins"
    /\ bin_hours = 4
    /\ TheStay.intime # NaT
    /\ TheStay.outtime - TheStay.intime = 10
    /\ Cardinality(bins_out) = 3
    /\ \E b \in bins_out : b.bin_idx = 2 /\ b.bin_end > TheStay.outtime

\* C9: every row of the DuckDB state table refers to a bin inside the stay:
\* bin >= 0 and intime + bin * 4h < outtime, whenever the events are charted.
\* Stated for the stays that end after they begin.
C9_BinInsideStay ==
    TheStay.outtime > TheStay.intime =>
        \A r \in states :
            /\ r.bin >= 0
            /\ TheStay.intime + r.bin * 4 < TheStay.outtime

\* the smallest-numbered category with a member among ids, 0 when there is none
Categories ==
    <<VENTILATION_IDS, INVASIVE_LINES_IDS, U_CATHETER_IDS, IN_EX_TUBATION_IDS,
      DIALYSIS_IDS>>

ExpectedLabel(ids) ==
    LET hits == {c \in 1..Len(Categories) : ids \cap Categories[c] # {}}
    IN  IF hits = {} THEN 0
        ELSE CHOOSE c \in hits : \A d \in hits : c <= d

\* itemids of the stay's procedure events with starttime in [start, end)
InWindowIds(start, end) ==
    {procedureevents[j].itemid : j \in {n \in 1..Len(procedureevents) :
        /\ procedureevents[n].stay_id = TheStay.stay_id
        /\ procedureevents[n].starttime >= start
        /\ procedureevents[n].starttime < end}}

\* the label the table must hold for 4-hour window number w (0, 1, ...) of the stay
WindowLabel(w) ==
    ExpectedLabel(InWindowIds(TheStay.intime + w * BIN_SIZE,
                              TheStay.intime + (w + 1) * BIN_SIZE))

\* C10: the action of a bin is the smallest-numbered category (1..5) with a
\* procedure event starting in the bin's window, and 0 without one; the rows
\* of the three tables hold that label, and on the procedure events of a
\* finished run get_action (both copies) and the DuckDB CASE expression agree
\* on every window of the stay.
C10_ActionLabel ==
    LET rows == PandasRows
        n == Len(StayBins) - 1
    IN  /\ script \in Pandas =>
              \A j \in 1..Len(rows) : rows[j].action = WindowLabel((j - 1) % n)
        /\ \A r \in transitions : r.action = WindowLabel(r.bin)
        /\ pc = "done" => \A w \in 0..(n - 1) :
              LET start == TheStay.intime + w * BIN_SIZE
                  end == TheStay.intime + (w + 1) * BIN_SIZE
                  row == [stay_id |-> TheStay.stay_id, bin |-> w]
                  label == WindowLabel(w)
              IN  /\ get_action(procedureevents, start, end) = label
                  /\ get_action_2(procedureevents, start, end) = label
                  /\ ActionCase(JoinedItemids(row, icustays, procedureevents)) = label

\* a window with a urinary catheter and a ventilation event is labelled 1
C10_Witness ==
    /\ script = "ddqn_processing"
    /\ pc = "done"
    /\ Len(transitions_df) >= 1
    /\ InWindowIds(TheStay.intime, TheStay.intime + BIN_SIZE) = {225794, 229351}
    /\ transitions_df[1].action = 1

\* the admissions lookup has no row for the stay's hadm_id
NoAdmissionRow == \A a \in admissions : a.hadm_id # TheStay.hadm_id

\* C11: when the stay's hadm_id has no row in admissions, the run ends without
\* an error and the terminal transition has reward +1; in the naive pandas
\* table (KeyError -> died = False), in the chunked one (.get(hadm_id, 0)) and
\* in the DuckDB table (LEFT JOIN admissions, COALESCE(flag, 0)).
C11_MissingAdmissionSurvived ==
    NoAdmissionRow =>
        /\ script \in Pandas =>
              /\ \A j \in DoneRows(PandasRows) : PandasRows[j].reward = 1
              /\ (pc = "done" /\ Len(StayBins) >= 2) => DoneRows(transitions_df) # {}
        /\ \A r \in transitions : r.done = 1 => r.reward = 1
        /\ (script = "ddqn_duckdb" /\ pc = "done" /\ states # {}) =>
              \E r \in transitions : r.done = 1

C11_Witness ==
    /\ script = "ddqn_processing_2"
    /\ pc = "done"
    /\ NoAdmissionRow
    /\ \E j \in DoneRows(transitions_df) : transitions_df[j].reward = 1

\* C12: the next-state of a terminal transition (done = 1) is the all-zero
\* vector, whatever the state of the terminal bin is; in the pandas tables
\* (np.zeros_like) and in the DuckDB table (COALESCE of the null LEAD to 0).
C12_TerminalNextStateZero ==
    /\ script \in Pandas =>
          \A j \in DoneRows(PandasRows) :
              /\ Len(PandasRows[j].s_next) = Len(STATE_V_ITEMIDS)
              /\ \A k \in 1..Len(STATE_V_ITEMIDS) : PandasRows[j].s_next[k] = Num(0)
    /\ \A r \in transitions :
          r.done = 1 =>
              \A k \in 1..Len(STATE_V_ITEMIDS) : r.s_next[k] = Num(0)

\* a terminal bin with a heart rate and no temperature
C12_Witness ==
    /\ script = "ddqn_processing"
    /\ pc = "done"
    /\ \E j \in DoneRows(transitions_df) :
          /\ transitions_df[j].s[1] = Num(80)
          /\ IsMissing(transitions_df[j].s[2])
          /\ transitions_df[j].s_next[1] = Num(0)
          /\ transitions_df[j].s_next[2] = Num(0)

\* the chart events of the stay for signal number k charted in [start, end)
EventsOfSignal(k, start, end) ==
    {j \in 1..Len(chartevents) :
        /\ chartevents[j].stay_id = TheStay.stay_id
        /\ chartevents[j].itemid = STATE_V_ITEMIDS[k]
        /\ chartevents[j].charttime >= start
        /\ chartevents[j].charttime < end}

\* the events of signal k in 4-hour window number w (0, 1, ...) of the stay
EventsInBin(k, w) ==
    EventsOfSignal(k, TheStay.intime + w * BIN_SIZE, TheStay.intime + (w + 1) * BIN_SIZE)

\* C13: a bin without an event of a tracked signal in [bin start, bin end) has
\* a missing value (never 0) in the current-state slot of that signal; in the
\* state vectors of the pandas tables and in the DuckDB columns HR..MBP of
\* states, carried to s_* of transitions.
C13_NoEventsMissingSlot ==
    LET rows == PandasRows
        n == Len(StayBins) - 1
    IN  /\ script \in Pandas =>
              \A j \in 1..Len(rows) : \A k \in 1..Len(STATE_V_ITEMIDS) :
                  EventsInBin(k, (j - 1) % n) = {} =>
                      IsMissing(rows[j].s[k]) /\ rows[j].s[k] # Num(0)
        /\ \A r \in states \cup transitions :
              \A k \in 1..Len(STATE_V_ITEMIDS) :
                  LET slot == IF r \in states THEN r.v[k] ELSE r.s[k]
                  IN  EventsInBin(k, r.bin) = {} => IsMissing(slot) /\ slot # Num(0)

\* a DuckDB row with a heart rate and no temperature
C13_Witness ==
    /\ script = "ddqn_duckdb"
    /\ pc = "done"
    /\ \E r \in transitions :
          /\ EventsInBin(1, r.bin) # {}
          /\ EventsInBin(2, r.bin) = {}
          /\ r.s[1] = Num(70)
          /\ IsMissing(r.s[2])

RECURSIVE SumOfValues(_)
\* the sum of valuenum over the chart events with index in idx
SumOfValues(idx) ==
    IF idx = {} THEN 0
    ELSE LET j == CHOOSE x \in idx : TRUE
         IN  chartevents[j].valuenum + SumOfValues(idx \ {j})

\* the arithmetic mean of valuenum over the chart events with index in idx,
\* missing when there is none
MeanOfEvents(idx) ==
    IF idx = {} THEN NaN
    ELSE LET g == GCD(SumOfValues(idx), Cardinality(idx))
         IN  [num |-> SumOfValues(idx) \div g, den |-> Cardinality(idx) \div g]

\* C14: every state slot of a finished table is the arithmetic mean of the
\* values of exactly the stay's events of the slot's signal with
\* bin start <= charttime < bin end: an event charted at a bin boundary counts
\* in the later bin only, and no event counts in two bins; in the naive and
\* the chunked pandas table and in the DuckDB table.
\* Stated for the runs whose chart events all lie inside the stay.
C14_SlotIsWindowMean ==
    EventsInsideStay =>
    LET n == Len(StayBins) - 1
    IN  /\ (script \in Pandas /\ pc = "done") =>
              \A j \in 1..Len(transitions_df) : \A k \in 1..Len(STATE_V_ITEMIDS) :
                  transitions_df[j].s[k] = MeanOfEvents(EventsInBin(k, (j - 1) % n))
        /\ \A r \in transitions : \A k \in 1..Len(STATE_V_ITEMIDS) :
              r.s[k] = MeanOfEvents(EventsInBin(k, r.bin))

\* C15: a stay whose make_bins result has fewer than 2 elements, which is a
\* stay shorter than one bin width or with outtime before intime, gets an
\* empty transition list from every call of the builder: the pandas tables
\* hold no row, terminal or not.
C15_ShortStayNoRows ==
    script \in Pandas =>
        /\ Len(StayBins) < 2 <=> TheStay.outtime - TheStay.intime < BIN_SIZE
        /\ TheStay.outtime - TheStay.intime < BIN_SIZE =>
              /\ parquet_rows = <<>>
              /\ transitions_df = <<>>

\* a 2-hour stay with two chart events inside it, read in two chunks
C15_Witness ==
    /\ script = "ddqn_processing_2"
    /\ pc = "done"
    /\ chunk_no = 2
    /\ TheStay.outtime - TheStay.intime = 2
    /\ EventsInsideStay
    /\ Len(StayBins) = 1
    /\ transitions_df = <<>>

\* the stay has 3 bin edges; its first window holds a ventilation procedure
\* and the heart rates 70 and 80, no other window holds an event; the
\* admission ended in death
ScenarioInput ==
    /\ Len(StayBins) = 3
    /\ InWindowIds(StayBins[1], StayBins[2]) = {225794}
    /\ \A j \in 1..Len(procedureevents) :
          /\ procedureevents[j].starttime >= StayBins[1]
          /\ procedureevents[j].starttime < StayBins[2]
    /\ Len(chartevents) = 2
    /\ \A j \in 1..Len(chartevents) :
          /\ chartevents[j].stay_id = TheStay.stay_id
          /\ chartevents[j].itemid = STATE_V_ITEMIDS[1]
          /\ chartevents[j].charttime >= StayBins[1]
          /\ chartevents[j].charttime < StayBins[2]
    /\ {chartevents[j].valuenum : j \in 1..Len(chartevents)} = {70, 80}
    /\ StayDied

\* C16: on the scenario input ddqn_processing.py gives exactly 2 transitions:
\* transition 0 with HR = 75, action = 1, reward = 0, done = 0 and transition
\* 1 with action = 0, reward = -1, done = 1.
C16_Scenario ==
    (script = "ddqn_processing" /\ pc = "done" /\ ScenarioInput) =>
        /\ Len(transitions_df) = 2
        /\ transitions_df[1].s[1] = Num(75)
        /\ transitions_df[1].action = 1
        /\ transitions_df[1].reward = 0
        /\ transitions_df[1].done = 0
        /\ transitions_df[2].action = 0
        /\ transitions_df[2].reward = 0 - 1
        /\ transitions_df[2].done = 1

\* the ventilation starts at intime, the heart rate 80 is charted before 70
C16_Witness ==
    /\ script = "ddqn_processing"
    /\ pc = "done"
    /\ ScenarioInput
    /\ procedureevents[1].starttime = TheStay.intime
    /\ chartevents[1].valuenum = 80
    /\ Len(transitions_df) = 2
    /\ transitions_df[1].s[1] = Num(75)
    /\ transitions_df[2].reward = 0 - 1

\* the code begins with A40, A41 or R65
HasSepsisPrefix(code) ==
    /\ Len(code) >= 3
    /\ <<code[1], code[2], code[3]>> \in
          {<<"A", "4", "0">>, <<"A", "4", "1">>, <<"R", "6", "5">>}

\* the admission of the stay has at least one qualifying diagnosis
StayQualifies ==
    \E d \in diagnoses : /\ d.hadm_id = TheStay.hadm_id
                          /\ d.icd_version = 10
                          /\ HasSepsisPrefix(d.icd_code)

\* C17: no transition of a produced table belongs to a stay whose admission
\* has no qualifying diagnosis (ICD version 10, code prefix A40, A41 or R65),
\* and a stay with such a diagnosis is processed; in the pandas tables and in
\* the DuckDB transitions table.  The stay of these runs lasts 8 hours and
\* has a heart rate charted at intime, so a processed stay has rows.
C17_CohortOnly ==
    /\ ~StayQualifies =>
          /\ parquet_rows = <<>>
          /\ transitions_df = <<>>
          /\ \A r \in transitions : r.stay_id # TheStay.stay_id
    /\ (StayQualifies /\ pc = "done") =>
          IF script \in Pandas THEN transitions_df # <<>>
          ELSE \E r \in transitions : r.stay_id = TheStay.stay_id

\* the columns every row of a transition table must carry
RowColumns == {"stay_id", "bin", "action", "s", "s_next", "done", "reward"}

\* C18: every row of the transition table of each variant carries the stay
\* identifier and the bin index, with the action, the six s_* columns, the
\* six s_next_* columns, done and reward.
C18_RowColumns ==
    /\ \A j \in 1..Len(transitions_df) :
          /\ RowColumns \subseteq DOMAIN transitions_df[j]
          /\ Len(transitions_df[j].s) = Len(STATE_V_ITEMIDS)
          /\ Len(transitions_df[j].s_next) = Len(STATE_V_ITEMIDS)
    /\ \A r \in transitions :
          /\ RowColumns \subseteq DOMAIN r
          /\ Len(r.s) = Len(STATE_V_ITEMIDS)
          /\ Len(r.s_next) = Len(STATE_V_ITEMIDS)

\* the rows of the input column that hold a finite number
FiniteRows == {i \in 1..Len(csv_col) : csv_col[i].kind = "num"}

\* the k-th smallest (k = 1, 2, ...) of the finite input values
KthSmallest(k) ==
    LET below(v) == Cardinality({i \in FiniteRows : csv_col[i].val < v})
        upto(v) == Cardinality({i \in FiniteRows : csv_col[i].val <= v})
    IN  CHOOSE v \in {csv_col[i].val : i \in FiniteRows} : below(v) < k /\ k <= upto(v)

\* 100 times the q-th percentile of the finite input values (linear
\* interpolation between the two nearest ranks)
Percentile100(q) ==
    LET n == Cardinality(FiniteRows)
        i == (q * (n - 1)) \div 100
        f == (q * (n - 1)) % 100
        a == KthSmallest(i + 1)
        b == KthSmallest(IF i + 2 <= n THEN i + 2 ELSE n)
    IN  100 * a + f * (b - a)

OneOfThree(i) ==
    \/ df_col[i] = Cell("nan", 0)
    \/ df_col[i] = Cell("dropped", 0)
    \/ csv_col[i].kind = "num" /\ df_col[i] = csv_col[i]

\* C20 as claimed: a cell of a numeric column is marked "nan" exactly when
\* its input value was missing (empty or not parseable as a number); such a
\* cell is never marked "dropped", and every cell ends as "nan", "dropped" or
\* its original number.
C20_NanIffMissing ==
    (script = "full_aggregate_outliers" /\ pc = "done" /\ "col" \in numeric_cols) =>
        \A i \in 1..Len(csv_col) :
            /\ df_col[i] = Cell("nan", 0) <=> csv_col[i].kind \in {"empty", "text"}
            /\ csv_col[i].kind \in {"empty", "text"} => df_col[i] # Cell("dropped", 0)
            /\ OneOfThree(i)

\* C20 as amended: a cell of a numeric column is marked "nan" exactly when
\* its input value was missing (empty or not parseable as a number) or
\* infinite (inf, -inf); such a cell is never marked "dropped", and every cell
\* ends as "nan", "dropped" or its original number.
C20_NanIffMissingOrInfinite ==
    (script = "full_aggregate_outliers" /\ pc = "done" /\ "col" \in numeric_cols) =>
        \A i \in 1..Len(csv_col) :
            /\ df_col[i] = Cell("nan", 0)
                  <=> csv_col[i].kind \in {"empty", "text", "inf", "-inf"}
            /\ csv_col[i].kind \in {"empty", "text", "inf", "-inf"}
                  => df_col[i] # Cell("dropped", 0)
            /\ OneOfThree(i)

\* a column with an empty field, an infinity and a number
C20_Witness ==
    /\ script = "full_aggregate_outliers"
    /\ pc = "done"
    /\ "col" \in numeric_cols
    /\ \E i, j, k \in 1..Len(csv_col) :
          /\ csv_col[i].kind = "empty" /\ df_col[i] = Cell("nan", 0)
          /\ csv_col[j].kind = "inf" /\ df_col[j] = Cell("nan", 0)
          /\ csv_col[k].kind = "num" /\ df_col[k] = csv_col[k]

\* the table ddqn_processing.py builds from the input files of the run
NaiveTable ==
    LET cohort == sepsis_cohort(icustays, diagnoses)
        all_transitions ==
            Concat([i \in 1..Len(cohort) |->
                       build_transitions_for_stay(cohort[i], chartevents,
                                                  procedureevents, admissions)])
    IN  [j \in 1..Len(all_transitions) |-> ToRow(all_transitions[j])]

\* C26: whatever the chunk size, the table the chunked script writes has the
\* rows of the table the naive script builds from the same files, and the
\* state vector of each row is the one the naive script computes for the
\* row's stay and bin from all chart events.
C26_ChunkedEqualsNaive ==
    (script = "ddqn_processing_2" /\ pc = "done") =>
        \E naive \in {NaiveTable} :
            /\ Len(transitions_df) = Len(naive)
            /\ \A j \in 1..Len(transitions_df) :
                  transitions_df[j].s = naive[((j - 1) % Len(naive)) + 1].s

\* the rows of the transitions table for the states row s
RowsOf(s) == {r \in transitions : r.stay_id = s.stay_id /\ r.bin = s.bin}

\* the procedure events in the 4-hour window of the states row s
ProceduresInWindow(s) ==
    {j \in 1..Len(procedureevents) :
        /\ procedureevents[j].stay_id = s.stay_id
        /\ \E i \in 1..Len(icustays) :
              /\ icustays[i].stay_id = s.stay_id
              /\ procedureevents[j].starttime >= icustays[i].intime + s.bin * BIN_SIZE
              /\ procedureevents[j].starttime < icustays[i].intime + (s.bin + 1) * BIN_SIZE}

\* C28: the transitions table has one row for each row of the states table,
\* whether none, one or several procedure events fall in the row's window,
\* and of the rows of a stay the one with the largest bin, and no other, has
\* done = 1.
C28_OneRowPerStatesRow ==
    (script = "ddqn_duckdb" /\ pc = "done") =>
        /\ \A s \in states : Cardinality(RowsOf(s)) = 1
        /\ Cardinality(transitions) = Cardinality(states)
        /\ \A s \in states :
              \A r \in RowsOf(s) :
                  r.done = 1 <=> \A x \in states : x.stay_id = s.stay_id => x.bin <= s.bin

\* a finished run with rows of two stays, a row with two procedure events in
\* its window, a row with none, and a stay whose last bin is not the largest
\* bin of the table
C28_Witness ==
    /\ script = "ddqn_duckdb"
    /\ pc = "done"
    /\ \E s \in states : Cardinality(ProceduresInWindow(s)) = 2
    /\ \E s \in states : ProceduresInWindow(s) = {}
    /\ \E s, x \in states : /\ s.stay_id = 30
                            /\ x.stay_id = 31
                            /\ x.bin > s.bin
                            /\ \A r \in RowsOf(s) : r.done = 1

----------------------------------------------------------------------------
(* merging_files.py: what the claims speak about *)

\* the subjects and features of the events file
Subjects == {1, 2}
Features == {itemid_to_feature[i] : i \in wanted_itemids}

\* the row of the file is a numeric event of a kept itemid with a subject
Qualifies(r) ==
    /\ r.subject_id.kind = "num"
    /\ r.itemid.kind = "num"
    /\ r.itemid.val \in wanted_itemids
    /\ r.valuenum.kind = "num"

\* the values of the qualifying events of subject s and feature f, in file order
QualifyingValues(f, s, ft) ==
    LET q == SelectSeq(f, LAMBDA r : /\ Qualifies(r)
                                     /\ r.subject_id.val = s
                                     /\ itemid_to_feature[r.itemid.val] = ft)
    IN  [i \in 1..Len(q) |-> q[i].valuenum.val]

\* the rows of out for subject s and feature ft
OutRows(s, ft) == {r \in out : r.subject_id = s /\ r.feature = ft}

\* C21: with agg = max (min), whatever the chunk size, the value returned for
\* a (subject_id, feature) pair is the greatest (least) valuenum of all the
\* qualifying events of the pair in the file, and the pair has one row.
C21_MaxMinOverAllEvents ==
    (script = "merging_files" /\ pc = "done" /\ agg \in {"max", "min"}) =>
        \A s \in Subjects, ft \in Features :
            LET q == QualifyingValues(events, s, ft)
            IN  q # <<>> =>
                    OutRows(s, ft) =
                        {[subject_id |-> s, feature |-> ft,
                          value |-> Num(IF agg = "max" THEN Greatest(q) ELSE Least(q))]}

\* a run with agg = max in which two chunks each gave a partial maximum of
\* the same pair, and the two differ
C21_Witness ==
    /\ script = "merging_files"
    /\ pc = "done"
    /\ agg = "max"
    /\ Len(partial) >= 2
    /\ \E a \in partial[1], b \in partial[2] :
          /\ a.subject_id = b.subject_id
          /\ a.feature = b.feature
          /\ a.value # b.value

\* C22: with agg = mean (median), whatever the chunk size, the value returned
\* for a (subject_id, feature) pair is the mean (median) of all the
\* qualifying events of the pair in the file.
C22_MeanMedianOverAllEvents ==
    (script = "merging_files" /\ pc = "done" /\ agg \in {"mean", "median"}) =>
        \A s \in Subjects, ft \in Features :
            LET q == QualifyingValues(events, s, ft)
            IN  q # <<>> =>
                    OutRows(s, ft) =
                        {[subject_id |-> s, feature |-> ft,
                          value |-> series_agg([i \in 1..Len(q) |-> Num(q[i])], agg)]}

\* the row has a valuenum that is no number, or no subject_id, or no itemid
Unusable(r) ==
    \/ r.valuenum.kind # "num"
    \/ r.subject_id.kind = "empty"
    \/ r.itemid.kind = "empty"

\* C25: the rows with an unparseable valuenum or a missing subject_id or
\* itemid count for nothing: the result is the result on the file without
\* them, and a pair with only such rows has no row in the result.
C25_UnusableRowsIgnored ==
    (script = "merging_files" /\ pc = "done") =>
        /\ out = aggregate_events_to_patient_features(
                     SelectSeq(events, LAMBDA r : ~Unusable(r)), agg_chunksize, agg)
        /\ \A s \in Subjects, ft \in Features :
              QualifyingValues(events, s, ft) = <<>> => OutRows(s, ft) = {}

----------------------------------------------------------------------------
(* time_bins_for_bcq.py: what the claims speak about *)

\* a required input of the run is absent: no form of icustays, no form of
\* chartevents, or an --itemids-file that is missing or has no numeric line
RequiredInputAbsent ==
    \/ \A i \in 1..Len(IcustaysPaths) : IcustaysPaths[i] \notin input_files
    \/ \A i \in 1..Len(CharteventsPaths) : CharteventsPaths[i] \notin input_files
    \/ /\ itemids_file.given
       /\ \/ ~itemids_file.exists
          \/ \A k \in 1..Len(itemids_file.lines) : ~isdigit(strip(itemids_file.lines[k]))

\* C23: when a required input is absent, the first step of main raises: no
\* query has run, and the output parquet files of an earlier run are neither
\* removed nor written; nothing happens after the raise.
C23_MissingInputRaises ==
    [][/\ (script = "time_bins_for_bcq" /\ pc = "args" /\ RequiredInputAbsent) =>
              /\ pc' = "raised"
              /\ UNCHANGED <<out_files, bins_out, events_out>>
       /\ (script = "time_bins_for_bcq" /\ pc = "raised") => UNCHANGED vars]_vars

\* a run that raised on an itemids file without a numeric line, with both
\* inputs present and both output files of an earlier run in place
C23_Witness ==
    /\ script = "time_bins_for_bcq"
    /\ pc = "raised"
    /\ out_files = {"bins", "events"}
    /\ bins_out = StaleBins
    /\ IcustaysPaths[2] \in input_files
    /\ CharteventsPaths[1] \in input_files
    /\ itemids_file.exists
    /\ Len(itemids_file.lines) = 2

\* the chartevents row j is an event of the stay i that chart_binned keeps:
\* inside [intime, outtime), with a valuenum, and of a listed itemid if a
\* list is given
KeptEvent(j, i) ==
    LET c == chartevents[j]
        st == icustays[i]
    IN  /\ c.stay_id = st.stay_id
        /\ c.charttime # NaT
        /\ st.intime # NaT
        /\ st.outtime # NaT
        /\ st.intime <= c.charttime
        /\ c.charttime < st.outtime
        /\ ~c.valuenum.null
        /\ (itemids # <<>> => \E k \in 1..Len(itemids) : ToInt(itemids[k]) = c.itemid)

KeptEvents(i) == {j \in 1..Len(chartevents) : KeptEvent(j, i)}

\* the n column summed over the rows of the events file of stay_id id
SumOfN(id) ==
    LET q == SetToSeq({r \in events_out : r.stay_id = id})
    IN  SumSeq([k \in 1..Len(q) |-> q[k].n])

\* C27: every event chart_binned keeps has a bin_idx in 0..n_bins-1 of its
\* stay and lies in [bin_start, bin_end) of that bin of the bins file; the
\* events file has a row for every (stay, bin, itemid) with a kept event,
\* and its n column summed over a stay is the number of kept events.
C27_KeptEventsHaveTheirBin ==
    (script = "time_bins_for_bcq" /\ pc = "done") =>
        \A i \in 1..Len(icustays) :
            LET st == icustays[i]
                idx(j) == bin_idx_of(chartevents[j].charttime, st.intime, bin_hours * 3600)
            IN  /\ \A j \in KeptEvents(i) :
                      /\ idx(j) \in 0..(n_bins(st.intime, st.outtime, bin_hours * 3600) - 1)
                      /\ \E b \in bins_out :
                            /\ b.stay_id = st.stay_id
                            /\ b.bin_idx = idx(j)
                            /\ b.bin_start <= chartevents[j].charttime
                            /\ chartevents[j].charttime < b.bin_end
                /\ {<<r.bin_idx, r.itemid>> : r \in {x \in events_out : x.stay_id = st.stay_id}}
                       = {<<idx(j), chartevents[j].itemid>> : j \in KeptEvents(i)}
                /\ SumOfN(st.stay_id) = Cardinality(KeptEvents(i))

\* a finished run with two kept events in the second bin of a stay that
\* ends inside that bin
C27_Witness ==
    /\ script = "time_bins_for_bcq"
    /\ pc = "done"
    /\ \E r \in events_out :
          /\ r.bin_idx = 1
          /\ r.n = 2
          /\ r.bin_end > icustays[1].outtime

----------------------------------------------------------------------------
(* sepsis_further_selection.py: what the claims speak about *)

\* the (feature, source) groups of the candidates file
CandidateGroups == {<<candidates[i].feature, candidates[i].source>> : i \in 1..Len(candidates)}

\* the row labels of the rows of frame df in group g
LabelsIn(df, g) == {df[i].index : i \in {j \in 1..Len(df) : <<df[j].feature, df[j].source>> = g}}

\* the score of the candidate with row label l
ScoreOf(l) == candidates[l + 1].score

\* C24: for each (feature, source) group, top5 holds min(5, group size) rows
\* of the group, each with a score at least that of every row of the group
\* left out; best holds one row of the group, of the greatest score of the
\* group, and that row is in top5.
C24_TopFiveAndBest ==
    (script = "sepsis_further_selection" /\ pc = "done") =>
        /\ \A i, j \in 1..Len(top5) : top5[i].index = top5[j].index => i = j
        /\ \A i, j \in 1..Len(best) : best[i].index = best[j].index => i = j
        /\ \A g \in CandidateGroups :
              LET members == LabelsIn(candidates, g)
                  kept == LabelsIn(top5, g)
                  first == LabelsIn(best, g)
              IN  /\ kept \subseteq members
                  /\ Cardinality(kept) = Min(5, Cardinality(members))
                  /\ \A k \in kept, m \in members \ kept : ScoreOf(k) >= ScoreOf(m)
                  /\ Cardinality(first) = 1
                  /\ first \subseteq kept
                  /\ \A b \in first, m \in members : ScoreOf(b) >= ScoreOf(m)

\* a finished run on a file with a group of six rows of which the only one
\* of the higher score is the last in the file, and a row of another group
C24_Witness ==
    /\ script = "sepsis_further_selection"
    /\ pc = "done"
    /\ Len(candidates) = 7
    /\ Cardinality(CandidateGroups) = 2
    /\ \E g \in CandidateGroups :
          /\ LabelsIn(candidates, g) = 1..6
          /\ ScoreOf(6) = 24
          /\ \A l \in 1..5 : ScoreOf(l) = 2
          /\ Cardinality(LabelsIn(top5, g)) = 5
====
